---- MODULE Spec2Model ----
(***************************************************************************)
(* SmartTrade: Smart Money Concepts detectors, the four strategy backtests *)
(* of BacktestEngine and the multi-timeframe ranking of                    *)
(* MultiTimeframeAnalyzer.                                                 *)
(*                                                                         *)
(* Candle prices are integers.  Every price the engine derives from them   *)
(* (entry, stop, target, profit/loss, Fibonacci level) is kept exactly, as *)
(* an integer number of 1/Scale price units, so that the factors 0.995,    *)
(* 1.005, 0.999, 1.001, 0.618, 0.786 and the 50% midpoint are exact.       *)
(* Python indices are 0-based and are kept 0-based here: At(s, i) is s[i]. *)
(***************************************************************************)
EXTENDS Integers, Sequences, FiniteSets, TLC

\* ------------------------------------------------------------------------
\* Generic helpers
\* ------------------------------------------------------------------------
Scale == 1000

At(s, i) == s[i + 1]

Abs(x) == IF x < 0 THEN -x ELSE x

Max2(a, b) == IF a >= b THEN a ELSE b

Min2(a, b) == IF a <= b THEN a ELSE b

Max3(a, b, c) == Max2(a, Max2(b, c))

\* the sequence a, a+1, ..., b-1 (python range(a, b))
Range(a, b) == IF b <= a THEN << >> ELSE [k \in 1..(b - a) |-> a + k - 1]

RECURSIVE SumSeq(_)
SumSeq(s) == IF s = << >> THEN 0 ELSE Head(s) + SumSeq(Tail(s))

MaxSeq(s) ==
    CHOOSE x \in {s[k] : k \in DOMAIN s} : \A k \in DOMAIN s : x >= s[k]

MinSeq(s) ==
    CHOOSE x \in {s[k] : k \in DOMAIN s} : \A k \in DOMAIN s : x <= s[k]

\* Optional[...] fields: None, or a one-element tuple holding the value
None == << >>

Some(v) == << v >>

Val(x) == x[1]

\* Python values of the two kinds that meet in a "type" field: a member of
\* the Enum OrderBlockType, or the plain string that to_dict() wrote.
\* A plain Enum member never compares equal to its string value.
EnumVal(v) == [kind |-> "enum", value |-> v]

StrVal(v) == [kind |-> "str", value |-> v]

BULLISH == EnumVal("bullish")

BEARISH == EnumVal("bearish")

\* ------------------------------------------------------------------------
\* Candle (smc_indicators.py)
\* ------------------------------------------------------------------------
Candle(t, o, h, l, c) == [time |-> t, open |-> o, high |-> h, low |-> l, close |-> c]

is_bullish(c) == c.close > c.open

is_bearish(c) == c.close < c.open

\* ------------------------------------------------------------------------
\* SMCAnalyzer.find_swing_highs_lows
\* ------------------------------------------------------------------------
swing_length == 5

IsSwingHighAtDistance(candles, i, n) ==
    ~(At(candles, i).high <= At(candles, i - n).high
      \/ At(candles, i).high <= At(candles, i + n).high)

IsSwingHigh(candles, i, n) ==
    \A j \in 1..n :
        ~(At(candles, i).high <= At(candles, i - j).high
          \/ At(candles, i).high <= At(candles, i + j).high)

IsSwingLow(candles, i, n) ==
    \A j \in 1..n :
        ~(At(candles, i).low >= At(candles, i - j).low
          \/ At(candles, i).low >= At(candles, i + j).low)

SwingPoint(candles, i, isHigh) ==
    [time |-> At(candles, i).time,
     price |-> IF isHigh THEN At(candles, i).high ELSE At(candles, i).low,
     index |-> i,
     is_high |-> isHigh]

find_swing_highs(candles, n) ==
    LET idx == SelectSeq(Range(n, Len(candles) - n),
                         LAMBDA i : IsSwingHigh(candles, i, n))
    IN  [k \in 1..Len(idx) |-> SwingPoint(candles, idx[k], TRUE)]

find_swing_lows(candles, n) ==
    LET idx == SelectSeq(Range(n, Len(candles) - n),
                         LAMBDA i : IsSwingLow(candles, i, n))
    IN  [k \in 1..Len(idx) |-> SwingPoint(candles, idx[k], FALSE)]

\* sorted(swing_highs + swing_lows, key=index): stable, so a candle that is
\* both a swing high and a swing low lists the high first
RECURSIVE MergeByIndex(_, _)
MergeByIndex(hs, ls) ==
    IF hs = << >> THEN ls
    ELSE IF ls = << >> THEN hs
    ELSE IF Head(hs).index <= Head(ls).index
         THEN << Head(hs) >> \o MergeByIndex(Tail(hs), ls)
         ELSE << Head(ls) >> \o MergeByIndex(hs, Tail(ls))

\* ------------------------------------------------------------------------
\* SMCAnalyzer.find_order_blocks
\* ------------------------------------------------------------------------
atr_period == 14

OBMinCandles == 10

OBTopN == 20

\* min_strength = 0.3 = MinStrengthNum / MinStrengthDen
MinStrengthNum == 3

MinStrengthDen == 10

TrueRangeOB(candles, j) ==
    Max3(At(candles, j).high - At(candles, j).low,
         IF j > 0 THEN Abs(At(candles, j).high - At(candles, j - 1).close) ELSE 0,
         IF j > 0 THEN Abs(At(candles, j).low - At(candles, j - 1).close) ELSE 0)

\* atr_values[i - atr_period] * atr_period: the sum of the true ranges of
\* candles i-14 .. i-1
AtrSum(candles, i) ==
    SumSeq([k \in 1..atr_period |-> TrueRangeOB(candles, i - atr_period + k - 1)])

\* strength as an exact fraction num/den, clamped to 1 by min(strength, 1.0)
ClampStrength(num, den) ==
    IF num >= den THEN [num |-> 1, den |-> 1] ELSE [num |-> num, den |-> den]

NextHigh(candles, i) ==
    MaxSeq([k \in 1..3 |-> At(candles, i + k).high])

NextLow(candles, i) ==
    MinSeq([k \in 1..3 |-> At(candles, i + k).low])

CountNext(candles, i, Test(_)) ==
    Cardinality({k \in 1..3 : Test(At(candles, i + k))})

\* the order blocks found at candle i: none or one
OrderBlockAt(candles, i) ==
    LET current == At(candles, i)
        atr14 == AtrSum(candles, i)
        upNum == atr_period * (NextHigh(candles, i) - current.close)
        dnNum == atr_period * (current.close - NextLow(candles, i))
    IN  IF is_bearish(current)
        THEN IF /\ atr14 > 0
                /\ CountNext(candles, i, is_bullish) >= 2
                /\ upNum * MinStrengthDen >= MinStrengthNum * atr14
             THEN << [type |-> BULLISH, time |-> current.time,
                      top |-> Max2(current.open, current.close),
                      bottom |-> current.low, candle_index |-> i,
                      strength |-> ClampStrength(upNum, atr14),
                      tested |-> FALSE, broken |-> FALSE] >>
             ELSE << >>
        ELSE IF is_bullish(current)
        THEN IF /\ atr14 > 0
                /\ CountNext(candles, i, is_bearish) >= 2
                /\ dnNum * MinStrengthDen >= MinStrengthNum * atr14
             THEN << [type |-> BEARISH, time |-> current.time,
                      top |-> current.high,
                      bottom |-> Min2(current.open, current.close),
                      candle_index |-> i,
                      strength |-> ClampStrength(dnNum, atr14),
                      tested |-> FALSE, broken |-> FALSE] >>
             ELSE << >>
        ELSE << >>

\* key (strength, time) of a is greater than or equal to that of b
KeyGE(a, b) ==
    LET l == a.strength.num * b.strength.den
        r == b.strength.num * a.strength.den
    IN  l > r \/ (l = r /\ a.time >= b.time)

\* list.sort(key=(strength, time), reverse=True): stable, descending
RECURSIVE InsertDesc(_, _)
InsertDesc(sorted, x) ==
    IF sorted = << >> THEN << x >>
    ELSE IF KeyGE(Head(sorted), x)
         THEN << Head(sorted) >> \o InsertDesc(Tail(sorted), x)
         ELSE << x >> \o sorted

RECURSIVE SortDesc(_)
SortDesc(s) ==
    IF s = << >> THEN << >>
    ELSE InsertDesc(SortDesc(SubSeq(s, 1, Len(s) - 1)), s[Len(s)])

\* the patterns Found(x) yields (none or one each) over the sequence xs
Collect(xs, Found(_)) ==
    LET hits == SelectSeq(xs, LAMBDA x : Found(x) # << >>)
    IN  [k \in 1..Len(hits) |-> Found(hits[k])[1]]

find_order_blocks(candles) ==
    IF Len(candles) < OBMinCandles THEN << >>
    ELSE LET found == Collect(Range(atr_period + 3, Len(candles) - 3),
                              LAMBDA i : OrderBlockAt(candles, i))
             sorted == SortDesc(found)
         IN  SubSeq(sorted, 1, Min2(Len(sorted), OBTopN))

\* ------------------------------------------------------------------------
\* SMCAnalyzer.find_fair_value_gaps
\* ------------------------------------------------------------------------
FVGMinCandles == 15

\* min_gap_atr_ratio = 0.1 = 1 / MinGapDen
MinGapDen == 10

TrueRangeFVG(candles, i) ==
    Max3(At(candles, i).high - At(candles, i).low,
         Abs(At(candles, i).high - At(candles, i - 1).close),
         Abs(At(candles, i).low - At(candles, i - 1).close))

FVGAtrCount(candles) == Min2(atr_period, Len(candles) - 1)

FVGAtrSum(candles) ==
    SumSeq([k \in 1..FVGAtrCount(candles) |-> TrueRangeFVG(candles, k)])

\* gap_size >= atr * min_gap_atr_ratio, with atr = FVGAtrSum / FVGAtrCount
GapLargeEnough(candles, gap) ==
    gap * MinGapDen * FVGAtrCount(candles) >= FVGAtrSum(candles)

FairValueGapAt(candles, i) ==
    LET c == At(candles, i)
        p == At(candles, i - 2)
    IN  IF c.low > p.high
        THEN IF GapLargeEnough(candles, c.low - p.high)
             THEN << [type |-> BULLISH, time_start |-> p.time, time_end |-> c.time,
                      top |-> c.low, bottom |-> p.high,
                      index_start |-> i - 2, index_end |-> i,
                      filled |-> FALSE] >>
             ELSE << >>
        ELSE IF c.high < p.low
        THEN IF GapLargeEnough(candles, p.low - c.high)
             THEN << [type |-> BEARISH, time_start |-> p.time, time_end |-> c.time,
                      top |-> p.low, bottom |-> c.high,
                      index_start |-> i - 2, index_end |-> i,
                      filled |-> FALSE] >>
             ELSE << >>
        ELSE << >>

find_fair_value_gaps(candles) ==
    IF Len(candles) < FVGMinCandles THEN << >>
    ELSE Collect(Range(2, Len(candles)), LAMBDA i : FairValueGapAt(candles, i))

\* ------------------------------------------------------------------------
\* SMCAnalyzer.find_cisd
\* ------------------------------------------------------------------------
CISDMinCandles == 20

CISDScan == 20

SweepsAndReverses(candles, swing, i) ==
    LET candle == At(candles, i)
        hasNext == i + 1 < Len(candles)
    IN  IF ~swing.is_high
        THEN /\ candle.low < swing.price
             /\ \/ candle.close > swing.price
                \/ /\ hasNext
                   /\ At(candles, i + 1).close > swing.price
                   /\ is_bullish(At(candles, i + 1))
        ELSE /\ candle.high > swing.price
             /\ \/ candle.close < swing.price
                \/ /\ hasNext
                   /\ At(candles, i + 1).close < swing.price
                   /\ is_bearish(At(candles, i + 1))

\* the zone of one swing: the first candle of
\* range(swing.index + 1, min(swing.index + 20, len)) that sweeps and reverses
CISDOfSwing(candles, swing) ==
    LET scan == Range(swing.index + 1, Min2(swing.index + CISDScan, Len(candles)))
        hits == SelectSeq(scan, LAMBDA i : SweepsAndReverses(candles, swing, i))
    IN  IF hits = << >> THEN << >>
        ELSE << [type |-> IF swing.is_high THEN BEARISH ELSE BULLISH,
                 time |-> At(candles, hits[1]).time,
                 top |-> At(candles, hits[1]).high,
                 bottom |-> At(candles, hits[1]).low,
                 candle_index |-> hits[1],
                 liquidity_swept_level |-> swing.price] >>

find_cisd(candles, swing_highs, swing_lows) ==
    IF Len(candles) < CISDMinCandles THEN << >>
    ELSE Collect(MergeByIndex(swing_highs, swing_lows),
                 LAMBDA swing : CISDOfSwing(candles, swing))

\* ------------------------------------------------------------------------
\* SMCAnalyzer.detect_trend and find_structure_breaks
\* ------------------------------------------------------------------------
TrendDirection(v) == [kind |-> "TrendDirection", value |-> v]

\* s[-3:]
LastThree(s) == SubSeq(s, Max2(1, Len(s) - 2), Len(s))

\* all(s[i].price < s[i+1].price ...)
PricesRise(s) == \A k \in 1..(Len(s) - 1) : s[k].price < s[k + 1].price

PricesFall(s) == \A k \in 1..(Len(s) - 1) : s[k].price > s[k + 1].price

\* the swing lists come from find_swing_highs_lows in index order, which
\* sorted(key=index) keeps
detect_trend(swing_highs, swing_lows) ==
    IF Len(swing_highs) < 2 \/ Len(swing_lows) < 2 THEN TrendDirection("neutral")
    ELSE IF PricesRise(LastThree(swing_highs)) /\ PricesRise(LastThree(swing_lows))
    THEN TrendDirection("bullish")
    ELSE IF PricesFall(LastThree(swing_lows)) /\ PricesFall(LastThree(swing_highs))
    THEN TrendDirection("bearish")
    ELSE TrendDirection("neutral")

StructureBreakMinCandles == 10

\* candle j closes beyond the price of the swing
ClosesBeyond(candles, swing, j) ==
    IF swing.is_high THEN At(candles, j).close > swing.price
    ELSE At(candles, j).close < swing.price

StructureBreakAt(candles, prev_swing, j, trend) ==
    LET direction == IF prev_swing.is_high THEN TrendDirection("bullish")
                     ELSE TrendDirection("bearish")
    IN  [type |-> IF trend = direction THEN "BOS" ELSE "CHoCH",
         direction |-> direction,
         time |-> At(candles, j).time,
         price |-> At(candles, j).close,
         index |-> j,
         broken_level |-> prev_swing.price]

StructureBreakOfPairLastHit(candles, prev_swing, current_swing, trend) ==
    LET scan == Range(prev_swing.index + 1, Min2(current_swing.index, Len(candles)))
        hits == SelectSeq(scan, LAMBDA j : ClosesBeyond(candles, prev_swing, j))
    IN  IF hits = << >> THEN << >>
        ELSE << StructureBreakAt(candles, prev_swing, hits[Len(hits)], trend) >>

\* the break of one pair of swings: the first candle of
\* range(prev.index + 1, min(current.index, len)) that closes beyond prev
StructureBreakOfPair(candles, prev_swing, current_swing, trend) ==
    LET scan == Range(prev_swing.index + 1, Min2(current_swing.index, Len(candles)))
        hits == SelectSeq(scan, LAMBDA j : ClosesBeyond(candles, prev_swing, j))
    IN  IF hits = << >> THEN << >>
        ELSE << StructureBreakAt(candles, prev_swing, hits[1], trend) >>

find_structure_breaks(candles, swing_highs, swing_lows) ==
    IF \/ Len(candles) < StructureBreakMinCandles
       \/ swing_highs = << >> \/ swing_lows = << >>
    THEN << >>
    ELSE LET trend == detect_trend(swing_highs, swing_lows)
             all_swings == MergeByIndex(swing_highs, swing_lows)
         IN  Collect(Range(1, Len(all_swings)),
                     LAMBDA k : StructureBreakOfPair(candles, all_swings[k],
                                                     all_swings[k + 1], trend))

\* ------------------------------------------------------------------------
\* to_dict() of the pattern dataclasses and SMCAnalyzer.analyze
\* ------------------------------------------------------------------------
\* round(x, 2) of the fraction num/den, in hundredths (ties to even)
Round2(num, den) ==
    LET q == (100 * num) \div den
        r == (100 * num) % den
    IN  IF 2 * r > den THEN q + 1
        ELSE IF 2 * r = den THEN q + (q % 2)
        ELSE q

OrderBlock_to_dict(ob) ==
    [class |-> "dict", type |-> StrVal(ob.type.value), time |-> ob.time,
     top |-> ob.top, bottom |-> ob.bottom, candle_index |-> ob.candle_index,
     strength |-> Round2(ob.strength.num, ob.strength.den),
     tested |-> ob.tested, broken |-> ob.broken]

FairValueGap_to_dict(fvg) ==
    [class |-> "dict", type |-> StrVal(fvg.type.value),
     time_start |-> fvg.time_start, time_end |-> fvg.time_end,
     top |-> fvg.top, bottom |-> fvg.bottom,
     index_start |-> fvg.index_start, index_end |-> fvg.index_end,
     filled |-> fvg.filled, size |-> fvg.top - fvg.bottom]

CISD_to_dict(c) ==
    [class |-> "dict", type |-> StrVal(c.type.value), time |-> c.time,
     top |-> c.top, bottom |-> c.bottom, candle_index |-> c.candle_index,
     liquidity_swept_level |-> c.liquidity_swept_level]

parse_candles(klines) ==
    [k \in 1..Len(klines) |->
        Candle(klines[k].time, klines[k].open, klines[k].high,
               klines[k].low, klines[k].close)]

MapSeq(s, F(_)) == [k \in 1..Len(s) |-> F(s[k])]

AnalyzeMinCandles == 20

analyze(klines) ==
    LET candles == parse_candles(klines)
        swing_highs == find_swing_highs(candles, swing_length)
        swing_lows == find_swing_lows(candles, swing_length)
    IN  IF Len(candles) < AnalyzeMinCandles
        THEN [error |-> "Insufficient data for SMC analysis"]
        ELSE [swing_highs |-> swing_highs,
              swing_lows |-> swing_lows,
              order_blocks |-> MapSeq(find_order_blocks(candles), OrderBlock_to_dict),
              fair_value_gaps |-> MapSeq(find_fair_value_gaps(candles), FairValueGap_to_dict),
              cisd_zones |-> MapSeq(find_cisd(candles, swing_highs, swing_lows), CISD_to_dict)]

\* dict.get(key, [])
Get(d, key) == IF key \in DOMAIN d THEN d[key] ELSE << >>

\* ------------------------------------------------------------------------
\* FibonacciAnalyzer (fibonacci.py); ratios in 1/Scale
\* ------------------------------------------------------------------------
FIBO_RETRACEMENT_LEVELS == << 0, 236, 382, 500, 618, 786, 1000 >>

DefaultTargetLevels == {618, 786}

FiboLookback == 100

TrendWindow == 10

\* tolerance_percent = 0.5: distance / price * 100 <= 0.5 iff
\* distance * ToleranceInv <= price (prices are positive)
ToleranceInv == 200

calculate_retracement(high, low, direction) ==
    LET range_size == Abs(high - low)
    IN  [swing_high |-> high, swing_low |-> low, direction |-> direction,
         levels |-> [k \in 1..Len(FIBO_RETRACEMENT_LEVELS) |->
             [ratio |-> FIBO_RETRACEMENT_LEVELS[k],
              price |-> IF direction = "uptrend"
                        THEN high * Scale - range_size * FIBO_RETRACEMENT_LEVELS[k]
                        ELSE low * Scale + range_size * FIBO_RETRACEMENT_LEVELS[k]]]]

\* the 0-based indices of klines_data[-lookback_period:]
RecentIndices(klines, lookback) == (Len(klines) - lookback)..(Len(klines) - 1)

FirstRecentCloseTenEarlier(len) == Max2(1, len - TrendWindow)

\* position in recent_data of recent_data[-10:][0]
FirstRecentClose(len) == Max2(1, len - TrendWindow + 1)

calculate_auto_retracements(klines, lookback) ==
    IF Len(klines) < lookback THEN << >>
    ELSE LET recent_data == SubSeq(klines, Len(klines) - lookback + 1, Len(klines))
             high == MaxSeq([k \in 1..Len(recent_data) |-> recent_data[k].high])
             low == MinSeq([k \in 1..Len(recent_data) |-> recent_data[k].low])
             first == FirstRecentClose(Len(recent_data))
             is_uptrend == recent_data[Len(recent_data)].close > recent_data[first].close
         IN  << calculate_retracement(high, low,
                    IF is_uptrend THEN "uptrend" ELSE "downtrend") >>

\* current_price in 1/Scale units
RECURSIVE NearestLevel(_, _, _)
NearestLevel(current_price, fibo_levels, closest) ==
    IF fibo_levels = << >> THEN closest
    ELSE LET level == Head(fibo_levels)
             distance == Abs(current_price - level.price)
             better == /\ distance * ToleranceInv <= level.price
                       /\ \/ closest = None
                          \/ distance < Abs(current_price - Val(closest).price)
         IN  NearestLevel(current_price, Tail(fibo_levels),
                          IF better THEN Some(level) ELSE closest)

find_price_near_fibo_level(current_price, fibo_levels) ==
    NearestLevel(current_price, fibo_levels, None)

\* ------------------------------------------------------------------------
\* Trade and BacktestEngine._close_trade (backtesting.py)
\* ------------------------------------------------------------------------
Trade(time, price, index, signal, stop, target, reason) ==
    [entry_time |-> time, entry_price |-> price, entry_index |-> index,
     signal_type |-> signal, stop_loss |-> stop, take_profit |-> target,
     exit_time |-> None, exit_price |-> None, exit_index |-> None,
     profit_loss |-> None, reason |-> reason]

is_closed(trade) == trade.exit_time # None

is_winner(trade) ==
    is_closed(trade) /\ Val(trade.profit_loss) # 0 /\ Val(trade.profit_loss) > 0

close_trade(trade, exit_time, exit_price, exit_index, reason) ==
    [trade EXCEPT !.exit_time = Some(exit_time),
                  !.exit_price = Some(exit_price),
                  !.exit_index = Some(exit_index),
                  !.reason = reason,
                  !.profit_loss = IF trade.signal_type = "buy"
                                  THEN Some(exit_price - trade.entry_price)
                                  ELSE Some(trade.entry_price - exit_price)]

\* the stop condition and the target condition of the exit check
StopHit(trade, candle) ==
    \/ trade.signal_type = "buy" /\ candle.low * Scale <= trade.stop_loss
    \/ trade.signal_type = "sell" /\ candle.high * Scale >= trade.stop_loss

TargetHit(trade, candle) ==
    \/ trade.signal_type = "buy" /\ candle.high * Scale >= trade.take_profit
    \/ trade.signal_type = "sell" /\ candle.low * Scale <= trade.take_profit

\* the exit check with the two tests in the other order
CheckExitTargetFirst(trade, candle, i) ==
    IF TargetHit(trade, candle)
    THEN close_trade(trade, candle.time, trade.take_profit, i, "Take Profit")
    ELSE IF StopHit(trade, candle)
    THEN close_trade(trade, candle.time, trade.stop_loss, i, "Stop Loss")
    ELSE trade

\* the exit check every strategy makes on a bar with an open trade:
\* stop loss first, then take profit
CheckExit(trade, candle, i) ==
    IF StopHit(trade, candle)
    THEN close_trade(trade, candle.time, trade.stop_loss, i, "Stop Loss")
    ELSE IF TargetHit(trade, candle)
    THEN close_trade(trade, candle.time, trade.take_profit, i, "Take Profit")
    ELSE trade

\* ------------------------------------------------------------------------
\* BacktestEngine._calculate_metrics and _empty_result
\* ------------------------------------------------------------------------
\* a fraction num/den; den = 0 stands for float('inf')
Frac(n, d) == [num |-> n, den |-> d]

Infinity == Frac(1, 0)

empty_result(strategy_name) ==
    [total_trades |-> 0, winning_trades |-> 0, losing_trades |-> 0,
     win_rate |-> Frac(0, 1), total_profit_loss |-> 0,
     avg_win |-> Frac(0, 1), avg_loss |-> Frac(0, 1),
     largest_win |-> 0, largest_loss |-> 0,
     profit_factor |-> Frac(0, 1), max_drawdown |-> Frac(0, 1),
     trades |-> << >>, strategy_name |-> strategy_name]

PnlOf(trades) == [k \in 1..Len(trades) |-> Val(trades[k].profit_loss)]

\* the drawdown walk: [cum, peak, max_dd] after the given closed trades
RECURSIVE DrawdownWalk(_, _)
DrawdownWalk(pnls, acc) ==
    IF pnls = << >> THEN acc
    ELSE LET cum == acc.cum + Head(pnls)
             peak == IF cum > acc.peak THEN cum ELSE acc.peak
             dd == peak - cum
         IN  DrawdownWalk(Tail(pnls),
                 [cum |-> cum, peak |-> peak,
                  max_dd |-> IF dd > acc.max_dd THEN dd ELSE acc.max_dd])

profit_factor_zero_without_losses(total_wins, total_losses) ==
    IF total_losses > 0 THEN Frac(total_wins, total_losses) ELSE Frac(0, 1)

\* line 816
profit_factor(total_wins, total_losses) ==
    IF total_losses > 0 THEN Frac(total_wins, total_losses) ELSE Infinity

calculate_metrics(trades, strategy_name) ==
    IF trades = << >> THEN empty_result(strategy_name)
    ELSE LET closed_trades == SelectSeq(trades, is_closed)
             winning == SelectSeq(closed_trades, is_winner)
             losing == SelectSeq(closed_trades, LAMBDA t : ~is_winner(t))
             total_wins == SumSeq(PnlOf(winning))
             total_losses == Abs(SumSeq(PnlOf(losing)))
             walk == DrawdownWalk(PnlOf(closed_trades),
                                  [cum |-> 0, peak |-> 0, max_dd |-> 0])
         IN  [total_trades |-> Len(closed_trades),
              winning_trades |-> Len(winning),
              losing_trades |-> Len(losing),
              win_rate |-> IF Len(closed_trades) > 0
                           THEN Frac(100 * Len(winning), Len(closed_trades))
                           ELSE Frac(0, 1),
              total_profit_loss |-> SumSeq(PnlOf(closed_trades)),
              avg_win |-> IF winning # << >>
                          THEN Frac(total_wins, Len(winning)) ELSE Frac(0, 1),
              avg_loss |-> IF losing # << >>
                           THEN Frac(SumSeq([k \in 1..Len(losing) |->
                                                Abs(PnlOf(losing)[k])]),
                                     Len(losing))
                           ELSE Frac(0, 1),
              largest_win |-> IF winning # << >> THEN MaxSeq(PnlOf(winning)) ELSE 0,
              largest_loss |-> IF losing # << >> THEN MinSeq(PnlOf(losing)) ELSE 0,
              profit_factor |-> profit_factor(total_wins, total_losses),
              max_drawdown |-> IF walk.peak > 0
                               THEN Frac(100 * walk.max_dd, walk.peak)
                               ELSE Frac(0, 1),
              trades |-> trades,
              strategy_name |-> strategy_name]

\* ------------------------------------------------------------------------
\* One run of a strategy backtest.  A run is the record
\*   pc             "loop" | "returned" | "raised"
\*   i              the bar the loop is at
\*   order_blocks, fvgs, cisd_zones, fibo, target_fibo_levels
\*                  the pattern objects the run built
\*   trades         the list of Trade objects
\*   current_trade  None, or Some(k): the object trades[k]
\*   result         None, or Some(BacktestResult)
\*   error          the exception a raised run ended with
\* ------------------------------------------------------------------------
NewRun ==
    [pc |-> "loop", i |-> 0, order_blocks |-> << >>, fvgs |-> << >>,
     cisd_zones |-> << >>, fibo |-> None, target_fibo_levels |-> << >>,
     trades |-> << >>, current_trade |-> None, result |-> None,
     error |-> "none"]

Raised(r, e) == [r EXCEPT !.pc = "raised", !.error = e]

Returned(r, res) == [r EXCEPT !.pc = "returned", !.result = Some(res)]

HasOpenTrade(r) ==
    r.current_trade # None /\ ~is_closed(r.trades[Val(r.current_trade)])

\* lines 205-219 and their copies: the exit check, then `continue`
ExitStep(r, candle) ==
    [r EXCEPT !.trades[Val(r.current_trade)] =
                  CheckExit(r.trades[Val(r.current_trade)], candle, r.i),
              !.i = r.i + 1]

OpenTradeEvaluated(r, trade) ==
    LET fill == [high |-> trade.entry_price, low |-> trade.entry_price]
        stopped == \/ trade.signal_type = "buy" /\ fill.low <= trade.stop_loss
                   \/ trade.signal_type = "sell" /\ fill.high >= trade.stop_loss
        reached == \/ trade.signal_type = "buy" /\ fill.high >= trade.take_profit
                   \/ trade.signal_type = "sell" /\ fill.low <= trade.take_profit
        opened == IF stopped
                  THEN close_trade(trade, trade.entry_time, trade.stop_loss, r.i,
                                   "Stop Loss")
                  ELSE IF reached
                  THEN close_trade(trade, trade.entry_time, trade.take_profit, r.i,
                                   "Take Profit")
                  ELSE trade
    IN  [r EXCEPT !.trades = Append(r.trades, opened),
                  !.current_trade = Some(Len(r.trades) + 1),
                  !.i = r.i + 1]

OpenTrade(r, trade) ==
    [r EXCEPT !.trades = Append(r.trades, trade),
              !.current_trade = Some(Len(r.trades) + 1),
              !.i = r.i + 1]

NoEntry(r) == [r EXCEPT !.i = r.i + 1]

\* the first Some(..) of a sequence of optional values, else None
RECURSIVE FirstSome(_)
FirstSome(opts) ==
    IF opts = << >> THEN None
    ELSE IF Head(opts) # None THEN Head(opts)
    ELSE FirstSome(Tail(opts))

\* ------------------------------------------------------------------------
\* test_orderblock_strategy
\* ------------------------------------------------------------------------
\* stop factors 0.995 / 1.005, times Scale
StopBelow == 995

StopAbove == 1005

\* OrderBlock(**ob): the dict's values become the fields unchanged, so
\* `type` holds the string to_dict() wrote
OrderBlockFromDict(ob) == [ob EXCEPT !.class = "OrderBlock"]

\* lines 178-191: the conversion that rebuilds the Enum, applied only when
\* the first element is still a dict
OrderBlockFromDictEnum(ob) ==
    IF ob.class = "dict"
    THEN [ob EXCEPT !.class = "OrderBlock", !.type = EnumVal(ob.type.value)]
    ELSE ob

StartOrderBlock(klines) ==
    LET first == MapSeq(Get(analyze(klines), "order_blocks"), OrderBlockFromDict)
        order_blocks == IF first # << >> /\ first[1].class = "dict"
                        THEN MapSeq(first, OrderBlockFromDictEnum)
                        ELSE first
    IN  [NewRun EXCEPT !.order_blocks = order_blocks]

\* the entry target of an order block, in 1/Scale units
TargetEntry(ob, klines, entry_method) ==
    LET ob_open_price ==
            IF 0 <= ob.candle_index /\ ob.candle_index < Len(klines)
            THEN At(klines, ob.candle_index).open * Scale
            ELSE IF ob.type = BULLISH THEN ob.top * Scale ELSE ob.bottom * Scale
        edge == IF ob.type = BULLISH THEN ob.top * Scale ELSE ob.bottom * Scale
    IN  IF entry_method = "50%" THEN ((ob.top + ob.bottom) * Scale) \div 2
        ELSE IF entry_method = "open" THEN ob_open_price
        ELSE edge

\* the trade one order block opens on bar i, or None
OrderBlockEntry(ob, klines, i, risk_reward_ratio, entry_method) ==
    LET candle == At(klines, i)
        target_entry == TargetEntry(ob, klines, entry_method)
    IN  IF ob.candle_index >= i THEN None
        ELSE IF ob.type = BULLISH
        THEN IF candle.low * Scale <= target_entry
             THEN LET entry_price == IF candle.open * Scale <= target_entry
                                     THEN candle.open * Scale ELSE target_entry
                      stop_loss == ob.bottom * StopBelow
                      risk == entry_price - stop_loss
                  IN  IF entry_price <= stop_loss THEN None
                      ELSE Some(Trade(candle.time, entry_price, i, "buy", stop_loss,
                                      entry_price + risk * risk_reward_ratio,
                                      "Bullish OB touch"))
             ELSE None
        ELSE IF ob.type = BEARISH
        THEN IF candle.high * Scale >= target_entry
             THEN LET entry_price == IF candle.open * Scale >= target_entry
                                     THEN candle.open * Scale ELSE target_entry
                      stop_loss == ob.top * StopAbove
                      risk == stop_loss - entry_price
                  IN  IF entry_price >= stop_loss THEN None
                      ELSE Some(Trade(candle.time, entry_price, i, "sell", stop_loss,
                                      entry_price - risk * risk_reward_ratio,
                                      "Bearish OB touch"))
             ELSE None
        ELSE None

OrderBlockBar(klines, risk_reward_ratio, entry_method, r) ==
    IF HasOpenTrade(r) THEN ExitStep(r, At(klines, r.i))
    ELSE LET entry == FirstSome([k \in 1..Len(r.order_blocks) |->
                          OrderBlockEntry(r.order_blocks[k], klines, r.i,
                                          risk_reward_ratio, entry_method)])
         IN  IF entry = None THEN NoEntry(r) ELSE OpenTrade(r, Val(entry))

\* ------------------------------------------------------------------------
\* test_fvg_strategy
\* ------------------------------------------------------------------------
\* fill_threshold = 0.5 = FillNum / FillDen
FillNum == 1

FillDen == 2

\* FairValueGap(type=OrderBlockType(fvg["type"]), ...): the Enum is rebuilt
\* from the string and `filled` starts at its default, False
FairValueGapFromDict(fvg) ==
    [class |-> "FairValueGap", type |-> EnumVal(fvg.type.value),
     time_start |-> fvg.time_start, time_end |-> fvg.time_end,
     top |-> fvg.top, bottom |-> fvg.bottom,
     index_start |-> fvg.index_start, index_end |-> fvg.index_end,
     filled |-> FALSE]

StartFVG(klines) ==
    [NewRun EXCEPT !.fvgs = MapSeq(Get(analyze(klines), "fair_value_gaps"),
                                    FairValueGapFromDict)]

\* the availability test without the `filled` check
FVGAvailableIgnoringFilled(fvg, i) == ~(fvg.index_end >= i)

\* lines 404-408: gaps not yet formed, or already used, are passed over
FVGAvailable(fvg, i) == ~(fvg.index_end >= i) /\ ~fvg.filled

\* the trade one gap opens on bar i, or None
FVGEntry(fvg, candle, i, risk_reward_ratio) ==
    LET size == fvg.top - fvg.bottom
        entry_price == candle.close * Scale
    IN  IF ~FVGAvailable(fvg, i) THEN None
        ELSE IF fvg.type = BULLISH /\ candle.low <= fvg.top /\ candle.close > fvg.bottom
        THEN IF (candle.close - fvg.bottom) * FillDen >= FillNum * size
             THEN LET stop_loss == fvg.bottom * StopBelow
                      risk == entry_price - stop_loss
                  IN  Some(Trade(candle.time, entry_price, i, "buy", stop_loss,
                                 entry_price + risk * risk_reward_ratio,
                                 "Bullish FVG fill"))
             ELSE None
        ELSE IF fvg.type = BEARISH /\ candle.high >= fvg.bottom /\ candle.close < fvg.top
        THEN IF (fvg.top - candle.close) * FillDen >= FillNum * size
             THEN LET stop_loss == fvg.top * StopAbove
                      risk == stop_loss - entry_price
                  IN  Some(Trade(candle.time, entry_price, i, "sell", stop_loss,
                                 entry_price - risk * risk_reward_ratio,
                                 "Bearish FVG fill"))
             ELSE None
        ELSE None

\* the position in fvgs of the first gap that opens a trade on bar i, or 0
FirstFVG(fvgs, candle, i, risk_reward_ratio) ==
    LET hits == SelectSeq(Range(1, Len(fvgs) + 1),
                    LAMBDA k : FVGEntry(fvgs[k], candle, i, risk_reward_ratio) # None)
    IN  IF hits = << >> THEN 0 ELSE hits[1]

\* line 431 / 455: fvg.filled = True
MarkFilled(fvgs, k) == [fvgs EXCEPT ![k].filled = TRUE]

\* the entry scan of a bar with no open trade
FVGScan(klines, risk_reward_ratio, r) ==
    LET candle == At(klines, r.i)
        k == FirstFVG(r.fvgs, candle, r.i, risk_reward_ratio)
    IN  IF k = 0 THEN NoEntry(r)
        ELSE [OpenTrade(r, Val(FVGEntry(r.fvgs[k], candle, r.i, risk_reward_ratio)))
                 EXCEPT !.fvgs = MarkFilled(r.fvgs, k)]

\* the bar without the `continue` that ends the exit check: a bar that
\* closes the trade goes on to scan for an entry
FVGBarNoContinue(klines, risk_reward_ratio, r) ==
    IF HasOpenTrade(r)
    THEN LET checked == [ExitStep(r, At(klines, r.i)) EXCEPT !.i = r.i]
         IN  IF HasOpenTrade(checked) THEN NoEntry(checked)
             ELSE FVGScan(klines, risk_reward_ratio, checked)
    ELSE FVGScan(klines, risk_reward_ratio, r)

FVGBar(klines, risk_reward_ratio, r) ==
    IF HasOpenTrade(r) THEN ExitStep(r, At(klines, r.i))
    ELSE FVGScan(klines, risk_reward_ratio, r)

\* ------------------------------------------------------------------------
\* test_fibonacci_strategy
\* ------------------------------------------------------------------------
\* the target_levels argument: absent (None), a list of ratios, or - when a
\* caller passes a number in that position - a float, which `in` cannot scan
NoLevels == [kind |-> "none", values |-> {}]

LevelList(S) == [kind |-> "list", values |-> S]

FloatArg == [kind |-> "float", values |-> {}]

StartFibonacci(klines, target_levels_arg) ==
    LET target_levels == IF target_levels_arg.kind = "none"
                         THEN LevelList(DefaultTargetLevels)
                         ELSE target_levels_arg
        fibo_retracements == calculate_auto_retracements(klines, FiboLookback)
        fibo == fibo_retracements[1]
    IN  IF fibo_retracements = << >>
        THEN Returned(NewRun, empty_result("Fibonacci Retracement"))
        ELSE IF target_levels.kind # "list" /\ fibo.levels # << >>
        THEN Raised(NewRun, "TypeError")
        ELSE [NewRun EXCEPT
                 !.fibo = Some(fibo),
                 !.target_fibo_levels =
                     SelectSeq(fibo.levels,
                               LAMBDA level : level.ratio \in target_levels.values)]

FibonacciEntry(fibo, target_fibo_levels, candle, i, risk_reward_ratio) ==
    LET close == candle.close * Scale
        nearest_level == find_price_near_fibo_level(close, target_fibo_levels)
    IN  IF nearest_level = None THEN None
        ELSE IF fibo.direction = "uptrend"
        THEN LET stop_loss == fibo.swing_low * StopBelow
                 risk == close - stop_loss
             IN  Some(Trade(candle.time, close, i, "buy", stop_loss,
                            close + risk * risk_reward_ratio, "Fibo touch (uptrend)"))
        ELSE LET stop_loss == fibo.swing_high * StopAbove
                 risk == stop_loss - close
             IN  Some(Trade(candle.time, close, i, "sell", stop_loss,
                            close - risk * risk_reward_ratio, "Fibo touch (downtrend)"))

FibonacciBar(klines, risk_reward_ratio, r) ==
    IF HasOpenTrade(r) THEN ExitStep(r, At(klines, r.i))
    ELSE LET entry == FibonacciEntry(Val(r.fibo), r.target_fibo_levels,
                                     At(klines, r.i), r.i, risk_reward_ratio)
         IN  IF entry = None THEN NoEntry(r) ELSE OpenTrade(r, Val(entry))

\* ------------------------------------------------------------------------
\* test_cisd_strategy
\* ------------------------------------------------------------------------
\* sweep stop factors 0.999 / 1.001, times Scale
SweepBelow == 999

SweepAbove == 1001

RetestWindow == 50

\* CISD(**c): the fields of the dataclass, `type` holding the string
CISDFromDict(c) == [c EXCEPT !.class = "CISD"]

StartCISD(klines) ==
    [NewRun EXCEPT !.cisd_zones = MapSeq(Get(analyze(klines), "cisd_zones"),
                                          CISDFromDict)]

\* hasattr(obj, name)
HasAttr(obj, name) == name \in DOMAIN obj

\* the attributes the entry scan reads from a zone
CISDAttrsRead == {"break_candle_index", "type", "top", "bottom", "sweep_price"}

\* the trade one zone opens on bar i, or None (all attributes present)
CISDEntry(cisd, candle, i, risk_reward_ratio) ==
    IF cisd.break_candle_index >= i THEN None
    ELSE IF i - cisd.break_candle_index > RetestWindow THEN None
    ELSE IF cisd.type = StrVal("bullish")
    THEN IF candle.low <= cisd.top /\ candle.high >= cisd.bottom
         THEN LET entry_price == IF candle.open < cisd.top
                                 THEN candle.open * Scale ELSE cisd.top * Scale
                  stop_loss == cisd.sweep_price * SweepBelow
                  risk == entry_price - stop_loss
              IN  IF entry_price <= stop_loss THEN None
                  ELSE Some(Trade(candle.time, entry_price, i, "buy", stop_loss,
                                  entry_price + risk * risk_reward_ratio,
                                  "Bullish CISD Retest"))
         ELSE None
    ELSE IF cisd.type = StrVal("bearish")
    THEN IF candle.high >= cisd.bottom /\ candle.low <= cisd.top
         THEN LET entry_price == IF candle.open > cisd.bottom
                                 THEN candle.open * Scale ELSE cisd.bottom * Scale
                  stop_loss == cisd.sweep_price * SweepAbove
                  risk == stop_loss - entry_price
              IN  IF entry_price >= stop_loss THEN None
                  ELSE Some(Trade(candle.time, entry_price, i, "sell", stop_loss,
                                  entry_price - risk * risk_reward_ratio,
                                  "Bearish CISD Retest"))
         ELSE None
    ELSE None

\* the first zone of the scan is read at line 673; an attribute the CISD
\* dataclass does not define ends the run with AttributeError
CISDBar(klines, risk_reward_ratio, r) ==
    IF HasOpenTrade(r) THEN ExitStep(r, At(klines, r.i))
    ELSE IF r.cisd_zones # << >> /\ ~HasAttr(r.cisd_zones[1], "break_candle_index")
    THEN Raised(r, "AttributeError")
    ELSE LET entry == FirstSome([k \in 1..Len(r.cisd_zones) |->
                          CISDEntry(r.cisd_zones[k], At(klines, r.i), r.i,
                                    risk_reward_ratio)])
         IN  IF entry = None THEN NoEntry(r) ELSE OpenTrade(r, Val(entry))

\* ------------------------------------------------------------------------
\* after the loop: forced close and metrics
\* ------------------------------------------------------------------------
StrategyName(strategy) ==
    CASE strategy = "orderblock" -> "Order Block"
      [] strategy = "fvg" -> "FVG Fill"
      [] strategy = "fibonacci" -> "Fibonacci Retracement"
      [] strategy = "cisd" -> "CISD Reversal"

\* the return path without the forced close
ForceCloseSkipped(klines, r) == r

ForceClose(klines, r) ==
    IF HasOpenTrade(r)
    THEN LET last_candle == klines[Len(klines)]
         IN  [r EXCEPT !.trades[Val(r.current_trade)] =
                 close_trade(r.trades[Val(r.current_trade)], last_candle.time,
                             last_candle.close * Scale, Len(klines) - 1,
                             "End of backtest")]
    ELSE r

\* klines_data[0] / klines_data[-1] of an empty list raise IndexError
FinishRun(klines, strategy, r) ==
    IF klines = << >> THEN Raised(r, "IndexError")
    ELSE LET closed == ForceClose(klines, r)
         IN  Returned(closed, calculate_metrics(closed.trades, StrategyName(strategy)))

\* ------------------------------------------------------------------------
\* MultiTimeframeAnalyzer (multi_timeframe_analysis.py): scores and rankings
\* ------------------------------------------------------------------------
RECURSIVE GCD(_, _)
GCD(a, b) == IF b = 0 THEN a ELSE GCD(b, a % b)

\* fractions with a positive denominator, kept in lowest terms
Reduce(f) ==
    LET g == GCD(Abs(f.num), f.den)
    IN  Frac(f.num \div g, f.den \div g)

FracAdd(a, b) == Reduce(Frac(a.num * b.den + b.num * a.den, a.den * b.den))

FracMul(a, b) ==
    LET x == Reduce(Frac(a.num, b.den))
        y == Reduce(Frac(b.num, a.den))
    IN  Reduce(Frac(x.num * y.num, x.den * y.den))

FracLT(a, b) == a.num * b.den < b.num * a.den

FracMin(a, b) == IF FracLT(b, a) THEN b ELSE a

FracMax(a, b) == IF FracLT(a, b) THEN b ELSE a

RECURSIVE FracSum(_)
FracSum(fs) == IF fs = << >> THEN Frac(0, 1) ELSE FracAdd(Head(fs), FracSum(Tail(fs)))

\* the strategies in the order the STRATEGIES dict lists them
STRATEGIES ==
    << [indicator_name |-> "Order Block", strategy_method |-> "orderblock"],
       [indicator_name |-> "Fair Value Gap", strategy_method |-> "fvg"],
       [indicator_name |-> "Fibonacci", strategy_method |-> "fibonacci"],
       [indicator_name |-> "CISD", strategy_method |-> "cisd"] >>

\* the score without the floor of the drawdown term at 0
calculate_indicator_score_unfloored(res) ==
    IF res.total_trades = 0 THEN Frac(0, 1)
    ELSE LET win_rate_score == FracMul(res.win_rate, Frac(40, 100))
             pf_normalized ==
                 IF res.profit_factor = Infinity THEN Frac(1, 1)
                 ELSE IF res.profit_factor.num > 0
                 THEN FracMin(FracMul(res.profit_factor, Frac(1, 2)), Frac(1, 1))
                 ELSE Frac(0, 1)
             pf_score == FracMul(pf_normalized, Frac(30, 1))
             trades_score ==
                 FracMul(FracMin(Frac(res.total_trades, 10), Frac(1, 1)), Frac(15, 1))
             dd_normalized ==
                 FracAdd(Frac(1, 1), FracMul(res.max_drawdown, Frac(-1, 50)))
             dd_score == FracMul(dd_normalized, Frac(15, 1))
             total_score ==
                 FracAdd(FracAdd(win_rate_score, pf_score),
                         FracAdd(trades_score, dd_score))
         IN  FracMin(total_score, Frac(100, 1))

calculate_indicator_score(res) ==
    IF res.total_trades = 0 THEN Frac(0, 1)
    ELSE LET win_rate_score == FracMul(res.win_rate, Frac(40, 100))
             pf_normalized ==
                 IF res.profit_factor = Infinity THEN Frac(1, 1)
                 ELSE IF res.profit_factor.num > 0
                 THEN FracMin(FracMul(res.profit_factor, Frac(1, 2)), Frac(1, 1))
                 ELSE Frac(0, 1)
             pf_score == FracMul(pf_normalized, Frac(30, 1))
             trades_score ==
                 FracMul(FracMin(Frac(res.total_trades, 10), Frac(1, 1)), Frac(15, 1))
             dd_normalized ==
                 FracMax(Frac(0, 1),
                         FracAdd(Frac(1, 1),
                                 FracMul(res.max_drawdown, Frac(-1, 50))))
             dd_score == FracMul(dd_normalized, Frac(15, 1))
             total_score ==
                 FracAdd(FracAdd(win_rate_score, pf_score),
                         FracAdd(trades_score, dd_score))
         IN  FracMin(total_score, Frac(100, 1))

IndicatorRanking(indicator_name, timeframe, res) ==
    [indicator_name |-> indicator_name, timeframe |-> timeframe,
     win_rate |-> res.win_rate, total_trades |-> res.total_trades,
     profit_factor |-> res.profit_factor,
     avg_win |-> res.avg_win, avg_loss |-> res.avg_loss,
     max_drawdown |-> res.max_drawdown,
     score |-> calculate_indicator_score(res)]

\* list.sort(key=..., reverse=True) on a list whose keys are the fractions
\* keys[k]: descending, equal keys keeping their order
SortByKeyDesc(xs, keys) ==
    LET pos(k) == 1 + Cardinality({j \in DOMAIN xs : FracLT(keys[k], keys[j])})
                    + Cardinality({j \in DOMAIN xs : j < k /\ keys[j] = keys[k]})
    IN  [p \in 1..Len(xs) |-> xs[CHOOSE k \in DOMAIN xs : pos(k) = p]]

ScoresOf(rankings) == [k \in 1..Len(rankings) |-> rankings[k].score]

\* lines 284-305: the tail of analyze_timeframe, given the rankings the
\* strategy loop collected; the weighted mean divides by the sum of scores
FinishTimeframe(timeframe, indicator_rankings) ==
    LET sorted == SortByKeyDesc(indicator_rankings, ScoresOf(indicator_rankings))
        score_sum == FracSum(ScoresOf(sorted))
        total_score == IF sorted # << >>
                       THEN FracMul(score_sum, Frac(1, Len(sorted)))
                       ELSE Frac(0, 1)
        weighted == FracSum([k \in 1..Len(sorted) |->
                                FracMul(sorted[k].win_rate, sorted[k].score)])
    IN  IF sorted # << >> /\ score_sum.num = 0
        THEN [raised |-> TRUE, error |-> "ZeroDivisionError"]
        ELSE [raised |-> FALSE,
              analysis |->
                  [timeframe |-> timeframe,
                   total_score |-> total_score,
                   indicators |-> sorted,
                   best_indicator |-> IF sorted # << >> THEN Some(sorted[1]) ELSE None,
                   respect_rate |-> IF sorted # << >>
                                    THEN FracMul(weighted,
                                                 Frac(score_sum.den, score_sum.num))
                                    ELSE Frac(0, 1)]]

\* the report without the two sorts
MultiTimeframeReportUnsorted(timeframe_analyses, all_indicators) ==
    [timeframes_analyzed |-> timeframe_analyses,
     best_timeframe |-> IF timeframe_analyses # << >>
                        THEN Some(timeframe_analyses[1]) ELSE None,
     best_overall_indicator |->
         IF all_indicators # << >> THEN Some(all_indicators[1]) ELSE None,
     summary |-> [total_timeframes_analyzed |-> Len(timeframe_analyses),
                  total_indicators_tested |-> Len(all_indicators)]]

\* lines 339-387: the tail of analyze_all_timeframes
MultiTimeframeReport(timeframe_analyses, all_indicators) ==
    LET by_score == SortByKeyDesc(timeframe_analyses,
                        [k \in 1..Len(timeframe_analyses) |->
                            timeframe_analyses[k].total_score])
        indicators == SortByKeyDesc(all_indicators, ScoresOf(all_indicators))
    IN  [timeframes_analyzed |-> by_score,
         best_timeframe |-> IF by_score # << >> THEN Some(by_score[1]) ELSE None,
         best_overall_indicator |->
             IF indicators # << >> THEN Some(indicators[1]) ELSE None,
         summary |-> [total_timeframes_analyzed |-> Len(by_score),
                      total_indicators_tested |-> Len(indicators)]]

\* a call made on the engine
Call(strategy, rr, method, levels) ==
    [strategy |-> strategy, risk_reward_ratio |-> rr, entry_method |-> method,
     target_levels |-> levels]

\* the fewest candles a timeframe needs to be analysed (line 331)
MinTimeframeCandles == 100

\* the same test against the 500 candles the documentation asks for
TooFewCandlesFor500(klines) == Len(klines) < 500

\* line 331: `len(klines_data) < 100`
TooFewCandles(klines) == Len(klines) < MinTimeframeCandles

\* risk_reward_ratio's default in the strategies' signatures
DefaultRiskReward == 2

\* lines 239-254: the arguments each strategy receives from
\* analyze_timeframe.  The fourth positional parameter of
\* test_fibonacci_strategy is target_levels, so risk_reward lands there and
\* risk_reward_ratio keeps its default
StrategyCall(strategy_method, risk_reward) ==
    IF strategy_method = "fibonacci"
    THEN Call("fibonacci", DefaultRiskReward, "edge", FloatArg)
    ELSE Call(strategy_method, risk_reward, "edge", NoLevels)

\* ------------------------------------------------------------------------
\* Candle series handed to the engine
\* ------------------------------------------------------------------------
\* a series is flat at BasePrice except for a window of WindowLen candles,
\* each drawn from Shapes, followed by TailLen flat candles; with spikes, a
\* one-tick swing high and swing low precede the window
BasePrice == 200

TimeBase == 1000

WindowLen == 3

TailLen == 4

Shape(o, h, l, c) == [open |-> o, high |-> h, low |-> l, close |-> c]

Flat == Shape(BasePrice, BasePrice, BasePrice, BasePrice)

GapUp == Shape(BasePrice + 4, BasePrice + 6, BasePrice + 4, BasePrice + 6)

PullBack == Shape(BasePrice + 4, BasePrice + 4, BasePrice + 1, BasePrice + 2)

GapDown == Shape(BasePrice - 4, BasePrice - 4, BasePrice - 10, BasePrice - 9)

PullUp == Shape(BasePrice - 4, BasePrice - 1, BasePrice - 4, BasePrice - 2)

Wide == Shape(BasePrice, BasePrice + 10, BasePrice - 10, BasePrice)

SpikeUp == Shape(BasePrice, BasePrice + 1, BasePrice, BasePrice)

SpikeDown == Shape(BasePrice, BasePrice, BasePrice - 1, BasePrice)

TickUp == Shape(BasePrice, BasePrice + 1, BasePrice, BasePrice + 1)

Shapes == {Flat, GapUp, PullBack, GapDown, PullUp, Wide}

LongWindowLen == 2

\* pre: flat candles before the window; w: window length; post: flat
\* candles after it; spikes: swing candles at pre-13 and pre-7; shapes: the
\* candles the window is drawn from
ShortLayout ==
    [pre |-> atr_period + 4, w |-> WindowLen, post |-> TailLen,
     spikes |-> TRUE, shapes |-> Shapes]

\* long enough for the auto-retracement, the window at the end
LongLayout ==
    [pre |-> FiboLookback - 2, w |-> LongWindowLen, post |-> 0,
     spikes |-> TRUE, shapes |-> Shapes]

\* one candle, then a flat stretch as long as the retracement lookback
FlatLayout ==
    [pre |-> 0, w |-> 1, post |-> FiboLookback,
     spikes |-> FALSE, shapes |-> {Flat, TickUp}]

\* a window one candle longer, drawn from the shapes that open a bearish gap
\* and stop a sell out, so that a gap is reached on the bar a trade closes
\* on and a used gap is reached a second time
ReentryLayout ==
    [pre |-> atr_period + 4, w |-> WindowLen + 1, post |-> TailLen,
     spikes |-> TRUE, shapes |-> {Flat, GapDown, Wide}]

\* flat series with a first candle that may tick up: the empty series, the
\* lengths just under the detectors' minimum lengths, and 50 candles
PlainLengths ==
    {0, 1, OBMinCandles - 1, FVGMinCandles - 1, AnalyzeMinCandles - 1, 50}

PlainLayouts ==
    {[pre |-> 0, w |-> Min2(n, 1), post |-> Max2(n - 1, 0),
      spikes |-> FALSE, shapes |-> {Flat, TickUp}] : n \in PlainLengths}

\* a bearish candle that closes under its open
Drop == Shape(BasePrice, BasePrice, BasePrice - 3, BasePrice - 2)

\* 20 candles, the window at indices 5..8 drawn from a bearish and a bullish
\* candle: holds the series of a drop at index 5 followed by a 3-candle rally
ScenarioLayout ==
    [pre |-> 5, w |-> 4, post |-> 11, spikes |-> FALSE, shapes |-> {Drop, GapUp}]

Layouts ==
    {ShortLayout, LongLayout, FlatLayout, ReentryLayout, ScenarioLayout}
        \cup PlainLayouts

ShapeAt(layout, window, i) ==
    IF i >= layout.pre /\ i < layout.pre + layout.w THEN window[i - layout.pre + 1]
    ELSE IF layout.spikes /\ i = layout.pre - 13 THEN SpikeUp
    ELSE IF layout.spikes /\ i = layout.pre - 7 THEN SpikeDown
    ELSE Flat

MakeSeries(layout, window) ==
    [k \in 1..(layout.pre + layout.w + layout.post) |->
        LET sh == ShapeAt(layout, window, k - 1)
        IN  [time |-> TimeBase + k - 1, open |-> sh.open, high |-> sh.high,
             low |-> sh.low, close |-> sh.close]]

SeriesOf(layouts) ==
    UNION {{MakeSeries(layout, window) : window \in [1..layout.w -> layout.shapes]} :
              layout \in layouts}

SeriesSet == SeriesOf(Layouts)

Calls ==
    {Call("orderblock", 2, "edge", NoLevels),
     Call("orderblock", 2, "50%", NoLevels),
     Call("orderblock", 1, "open", NoLevels),
     Call("fvg", 1, "edge", NoLevels),
     Call("fvg", 2, "edge", NoLevels),
     Call("fibonacci", 1, "edge", NoLevels),
     Call("fibonacci", 2, "edge", LevelList(DefaultTargetLevels)),
     Call("cisd", 2, "edge", NoLevels)}

\* calls with a parameter out of range: a risk/reward ratio of 0 or below,
\* an entry method that does not exist, an empty list of target levels
InvalidCalls ==
    {Call("fvg", 0, "edge", NoLevels),
     Call("fvg", -1, "edge", NoLevels),
     Call("orderblock", 2, "middle", NoLevels),
     Call("fibonacci", 2, "edge", LevelList({}))}

\* the risk/reward ratios handed to analyze_all_timeframes
RiskRewards == {1, 2}

\* the keys of klines_by_timeframe, in insertion order
TimeframeNames == << "1m", "5m", "15m", "30m", "1h", "4h", "1d" >>

MaxTimeframes == 2

\* a retracement-length series ending in the given window
MTFLayout(window) ==
    [pre |-> FiboLookback - 3, w |-> Len(window), post |-> 0,
     spikes |-> TRUE, shapes |-> Shapes]

MTFWindows ==
    {<< GapUp, PullBack, PullBack, GapUp >>,
     << GapUp, PullBack, PullBack, Flat >>,
     << GapUp, PullBack, PullBack, PullBack >>,
     << GapDown, GapDown, GapDown, Wide >>}

\* a flat series one candle too short to be analysed, a flat one that is
\* long enough, and one per window
MTFSeries ==
    {MakeSeries([FlatLayout EXCEPT !.post = MinTimeframeCandles - 2], << Flat >>),
     MakeSeries(FlatLayout, << Flat >>)}
    \cup {MakeSeries(MTFLayout(window), window) : window \in MTFWindows}

KlinesByTimeframe ==
    UNION {{[k \in 1..n |-> [timeframe |-> TimeframeNames[k], klines |-> f[k]]] :
               f \in [1..n -> MTFSeries]} : n \in 0..MaxTimeframes}

\* ------------------------------------------------------------------------
\* State: one call of a test_*_strategy method, made directly or by
\* analyze_timeframe, and one call of analyze_all_timeframes
\* ------------------------------------------------------------------------
VARIABLES
    klines_data,         \* the candle series of the call
    strategy,            \* which test_*_strategy method is running
    risk_reward_ratio,
    entry_method,
    target_levels,
    pc,                  \* "call" | "loop" | "returned" | "raised"
    i,                   \* the loop variable
    order_blocks,
    fvgs,
    cisd_zones,
    fibo,
    target_fibo_levels,
    trades,
    current_trade,
    result,
    error,
    klines_by_timeframe, \* the argument of analyze_all_timeframes
    risk_reward,
    mtf_pc,              \* "none" | "timeframes" | "strategies" | "backtest"
                         \* | "returned" | "raised"
    tf_index,            \* position of the timeframe loop
    strategy_index,      \* position of the strategy loop
    indicator_rankings,
    timeframe_analyses,
    all_indicators,
    report,
    mtf_error,
    previous,            \* the outcome of an earlier call on the same instance
    peer,                \* a second invocation running in another thread
    detected,            \* what a detector called on its own returned
    exchanges,           \* DataAggregator.exchanges
    available,           \* _is_available of each exchange
    answer               \* what the last get_ticker / get_order_book returned

inputs == << klines_data, strategy, risk_reward_ratio, entry_method, target_levels >>

vars == << klines_data, strategy, risk_reward_ratio, entry_method, target_levels,
           pc, i, order_blocks, fvgs, cisd_zones, fibo, target_fibo_levels,
           trades, current_trade, result, error,
           klines_by_timeframe, risk_reward, mtf_pc, tf_index, strategy_index,
           indicator_rankings, timeframe_analyses, all_indicators, report,
           mtf_error, previous, peer, detected, exchanges, available, answer >>

\* the variables only the other specifications use
extra_vars == << previous, peer, detected, exchanges, available, answer >>

ExtrasIdle ==
    /\ previous = None
    /\ peer = None
    /\ detected = None
    /\ exchanges = << >>
    /\ available = << >>
    /\ answer = None

mtf_vars == << klines_by_timeframe, risk_reward, mtf_pc, tf_index, strategy_index,
               indicator_rankings, timeframe_analyses, all_indicators, report,
               mtf_error >>

\* the run the variables hold
Run ==
    [pc |-> pc, i |-> i, order_blocks |-> order_blocks, fvgs |-> fvgs,
     cisd_zones |-> cisd_zones, fibo |-> fibo,
     target_fibo_levels |-> target_fibo_levels, trades |-> trades,
     current_trade |-> current_trade, result |-> result, error |-> error]

SetRun(r) ==
    /\ pc' = r.pc
    /\ i' = r.i
    /\ order_blocks' = r.order_blocks
    /\ fvgs' = r.fvgs
    /\ cisd_zones' = r.cisd_zones
    /\ fibo' = r.fibo
    /\ target_fibo_levels' = r.target_fibo_levels
    /\ trades' = r.trades
    /\ current_trade' = r.current_trade
    /\ result' = r.result
    /\ error' = r.error

\* no call has run yet
SetInitialRun ==
    /\ i = 0
    /\ order_blocks = << >>
    /\ fvgs = << >>
    /\ cisd_zones = << >>
    /\ fibo = None
    /\ target_fibo_levels = << >>
    /\ trades = << >>
    /\ current_trade = None
    /\ result = None
    /\ error = "none"

\* a strategy method called directly
InitDirect ==
    /\ \E c \in Calls \cup InvalidCalls :
          /\ klines_data \in IF c \in Calls THEN SeriesSet
                              ELSE SeriesOf({ReentryLayout, FlatLayout})
          /\ strategy = c.strategy
          /\ risk_reward_ratio = c.risk_reward_ratio
          /\ entry_method = c.entry_method
          /\ target_levels = c.target_levels
    /\ pc = "call"
    /\ klines_by_timeframe = << >>
    /\ risk_reward = DefaultRiskReward
    /\ mtf_pc = "none"

\* analyze_all_timeframes called; no strategy method is running yet
InitScan ==
    /\ klines_by_timeframe \in KlinesByTimeframe
    /\ risk_reward \in RiskRewards
    /\ mtf_pc = "timeframes"
    /\ klines_data = << >>
    /\ strategy = "none"
    /\ risk_reward_ratio = DefaultRiskReward
    /\ entry_method = "edge"
    /\ target_levels = NoLevels
    /\ pc = "idle"

Init ==
    /\ InitDirect \/ InitScan
    /\ i = 0
    /\ order_blocks = << >>
    /\ fvgs = << >>
    /\ cisd_zones = << >>
    /\ fibo = None
    /\ target_fibo_levels = << >>
    /\ trades = << >>
    /\ current_trade = None
    /\ result = None
    /\ error = "none"
    /\ tf_index = 1
    /\ strategy_index = 1
    /\ indicator_rankings = << >>
    /\ timeframe_analyses = << >>
    /\ all_indicators = << >>
    /\ report = None
    /\ mtf_error = "none"
    /\ ExtrasIdle

\* lines 171-194, 361-380, 507-521, 635-643: analysis and set-up
CallOrderBlock ==
    /\ pc = "call" /\ strategy = "orderblock"
    /\ SetRun(StartOrderBlock(klines_data))
    /\ UNCHANGED << inputs, mtf_vars >>
    /\ UNCHANGED extra_vars

CallFVG ==
    /\ pc = "call" /\ strategy = "fvg"
    /\ SetRun(StartFVG(klines_data))
    /\ UNCHANGED << inputs, mtf_vars >>
    /\ UNCHANGED extra_vars

CallFibonacci ==
    /\ pc = "call" /\ strategy = "fibonacci"
    /\ SetRun(StartFibonacci(klines_data, target_levels))
    /\ UNCHANGED << inputs, mtf_vars >>
    /\ UNCHANGED extra_vars

CallCISD ==
    /\ pc = "call" /\ strategy = "cisd"
    /\ SetRun(StartCISD(klines_data))
    /\ UNCHANGED << inputs, mtf_vars >>
    /\ UNCHANGED extra_vars

\* one iteration of `for i in range(len(klines_data))`
BarOrderBlock ==
    /\ pc = "loop" /\ strategy = "orderblock" /\ i < Len(klines_data)
    /\ SetRun(OrderBlockBar(klines_data, risk_reward_ratio, entry_method, Run))
    /\ UNCHANGED << inputs, mtf_vars >>
    /\ UNCHANGED extra_vars

BarFVG ==
    /\ pc = "loop" /\ strategy = "fvg" /\ i < Len(klines_data)
    /\ SetRun(FVGBar(klines_data, risk_reward_ratio, Run))
    /\ UNCHANGED << inputs, mtf_vars >>
    /\ UNCHANGED extra_vars

BarFibonacci ==
    /\ pc = "loop" /\ strategy = "fibonacci" /\ i < Len(klines_data)
    /\ SetRun(FibonacciBar(klines_data, risk_reward_ratio, Run))
    /\ UNCHANGED << inputs, mtf_vars >>
    /\ UNCHANGED extra_vars

BarCISD ==
    /\ pc = "loop" /\ strategy = "cisd" /\ i < Len(klines_data)
    /\ SetRun(CISDBar(klines_data, risk_reward_ratio, Run))
    /\ UNCHANGED << inputs, mtf_vars >>
    /\ UNCHANGED extra_vars

\* the code after the loop: forced close, _calculate_metrics, return
Finish ==
    /\ pc = "loop" /\ i = Len(klines_data)
    /\ SetRun(FinishRun(klines_data, strategy, Run))
    /\ UNCHANGED << inputs, mtf_vars >>
    /\ UNCHANGED extra_vars

\* line 330-333: a timeframe with too few candles is passed over
SkipTimeframe ==
    /\ mtf_pc = "timeframes" /\ tf_index <= Len(klines_by_timeframe)
    /\ TooFewCandles(klines_by_timeframe[tf_index].klines)
    /\ tf_index' = tf_index + 1
    /\ UNCHANGED << klines_by_timeframe, risk_reward, mtf_pc, strategy_index,
                    indicator_rankings, timeframe_analyses, all_indicators,
                    report, mtf_error >>
    /\ UNCHANGED << inputs, pc, i, order_blocks, fvgs, cisd_zones, fibo,
                    target_fibo_levels, trades, current_trade, result, error >>
    /\ UNCHANGED extra_vars

\* line 335, 231-233: analyze_timeframe is entered
StartTimeframe ==
    /\ mtf_pc = "timeframes" /\ tf_index <= Len(klines_by_timeframe)
    /\ ~TooFewCandles(klines_by_timeframe[tf_index].klines)
    /\ mtf_pc' = "strategies"
    /\ strategy_index' = 1
    /\ indicator_rankings' = << >>
    /\ UNCHANGED << klines_by_timeframe, risk_reward, tf_index,
                    timeframe_analyses, all_indicators, report, mtf_error >>
    /\ UNCHANGED << inputs, pc, i, order_blocks, fvgs, cisd_zones, fibo,
                    target_fibo_levels, trades, current_trade, result, error >>
    /\ UNCHANGED extra_vars

\* lines 236-254: the next strategy's method is called
CallStrategy ==
    /\ mtf_pc = "strategies" /\ strategy_index <= Len(STRATEGIES)
    /\ LET c == StrategyCall(STRATEGIES[strategy_index].strategy_method, risk_reward)
       IN  /\ klines_data' = klines_by_timeframe[tf_index].klines
           /\ strategy' = c.strategy
           /\ risk_reward_ratio' = c.risk_reward_ratio
           /\ entry_method' = c.entry_method
           /\ target_levels' = c.target_levels
    /\ SetRun([NewRun EXCEPT !.pc = "call"])
    /\ mtf_pc' = "backtest"
    /\ UNCHANGED << klines_by_timeframe, risk_reward, tf_index, strategy_index,
                    indicator_rankings, timeframe_analyses, all_indicators,
                    report, mtf_error >>
    /\ UNCHANGED extra_vars

\* lines 258-278: the result is scored and ranked
StrategyReturned ==
    /\ mtf_pc = "backtest" /\ pc = "returned"
    /\ indicator_rankings' =
           Append(indicator_rankings,
                  IndicatorRanking(STRATEGIES[strategy_index].indicator_name,
                                   klines_by_timeframe[tf_index].timeframe,
                                   Val(result)))
    /\ strategy_index' = strategy_index + 1
    /\ mtf_pc' = "strategies"
    /\ UNCHANGED << klines_by_timeframe, risk_reward, tf_index,
                    timeframe_analyses, all_indicators, report, mtf_error >>
    /\ UNCHANGED << inputs, pc, i, order_blocks, fvgs, cisd_zones, fibo,
                    target_fibo_levels, trades, current_trade, result, error >>
    /\ UNCHANGED extra_vars

\* lines 280-282: an exception of the strategy is logged and the loop goes on
StrategyRaised ==
    /\ mtf_pc = "backtest" /\ pc = "raised"
    /\ strategy_index' = strategy_index + 1
    /\ mtf_pc' = "strategies"
    /\ UNCHANGED << klines_by_timeframe, risk_reward, tf_index, indicator_rankings,
                    timeframe_analyses, all_indicators, report, mtf_error >>
    /\ UNCHANGED << inputs, pc, i, order_blocks, fvgs, cisd_zones, fibo,
                    target_fibo_levels, trades, current_trade, result, error >>
    /\ UNCHANGED extra_vars

\* lines 284-305 and 336-337: the timeframe's analysis is built and
\* collected; an exception raised while building it leaves
\* analyze_all_timeframes, which has no handler
EndTimeframe ==
    /\ mtf_pc = "strategies" /\ strategy_index > Len(STRATEGIES)
    /\ LET done == FinishTimeframe(klines_by_timeframe[tf_index].timeframe,
                                   indicator_rankings)
       IN  IF done.raised
           THEN /\ mtf_pc' = "raised"
                /\ mtf_error' = done.error
                /\ UNCHANGED << tf_index, timeframe_analyses, all_indicators >>
           ELSE /\ mtf_pc' = "timeframes"
                /\ timeframe_analyses' = Append(timeframe_analyses, done.analysis)
                /\ all_indicators' = all_indicators \o done.analysis.indicators
                /\ tf_index' = tf_index + 1
                /\ UNCHANGED mtf_error
    /\ UNCHANGED << klines_by_timeframe, risk_reward, strategy_index,
                    indicator_rankings, report >>
    /\ UNCHANGED << inputs, pc, i, order_blocks, fvgs, cisd_zones, fibo,
                    target_fibo_levels, trades, current_trade, result, error >>
    /\ UNCHANGED extra_vars

\* lines 339-387: the report is built and returned
ReturnReport ==
    /\ mtf_pc = "timeframes" /\ tf_index > Len(klines_by_timeframe)
    /\ report' = Some(MultiTimeframeReport(timeframe_analyses, all_indicators))
    /\ mtf_pc' = "returned"
    /\ UNCHANGED << klines_by_timeframe, risk_reward, tf_index, strategy_index,
                    indicator_rankings, timeframe_analyses, all_indicators,
                    mtf_error >>
    /\ UNCHANGED << inputs, pc, i, order_blocks, fvgs, cisd_zones, fibo,
                    target_fibo_levels, trades, current_trade, result, error >>
    /\ UNCHANGED extra_vars

Next ==
    \/ CallOrderBlock
    \/ CallFVG
    \/ CallFibonacci
    \/ CallCISD
    \/ BarOrderBlock
    \/ BarFVG
    \/ BarFibonacci
    \/ BarCISD
    \/ Finish
    \/ SkipTimeframe
    \/ StartTimeframe
    \/ CallStrategy
    \/ StrategyReturned
    \/ StrategyRaised
    \/ EndTimeframe
    \/ ReturnReport

Spec == Init /\ [][Next]_vars

\* ------------------------------------------------------------------------
\* Two calls in a row on one BacktestEngine / MultiTimeframeAnalyzer.  The
\* engine's attributes are its two analyzers, the analyzer's attribute is
\* the engine; they are assigned in __init__ and nowhere else, and the
\* analyzers keep swing_length and the level lists only.  trades,
\* current_trade and the pattern lists are locals of a call.
\* ------------------------------------------------------------------------
\* the set-up of a strategy method, up to its loop
Start(strategy_method, klines, levels) ==
    CASE strategy_method = "orderblock" -> StartOrderBlock(klines)
      [] strategy_method = "fvg" -> StartFVG(klines)
      [] strategy_method = "fibonacci" -> StartFibonacci(klines, levels)
      [] strategy_method = "cisd" -> StartCISD(klines)

\* what a call hands to its caller
Outcome(r) ==
    [pc |-> r.pc, trades |-> r.trades, result |-> r.result, error |-> r.error]

StartAgainKeepingGaps(strategy_method, klines, levels, r) ==
    [Start(strategy_method, klines, levels) EXCEPT !.fvgs = r.fvgs]

\* the set-up of a later call on the same engine: r, the locals the earlier
\* call ended with, is not read; the gap list is built anew from analyze()
StartAgain(strategy_method, klines, levels, r) ==
    Start(strategy_method, klines, levels)

\* the calls made twice: the FVG strategy on the series with gaps that are
\* used, the Fibonacci strategy on a flat series, and scans of at most one
\* timeframe
InitRerun ==
    /\ \/ /\ \E c \in Calls \cup InvalidCalls :
                /\ \/ c.strategy = "fvg" /\ klines_data \in SeriesOf({ReentryLayout})
                   \/ c.strategy = "fibonacci" /\ klines_data \in SeriesOf({FlatLayout})
                /\ strategy = c.strategy
                /\ risk_reward_ratio = c.risk_reward_ratio
                /\ entry_method = c.entry_method
                /\ target_levels = c.target_levels
          /\ pc = "call"
          /\ klines_by_timeframe = << >>
          /\ risk_reward = DefaultRiskReward
          /\ mtf_pc = "none"
       \/ /\ klines_by_timeframe \in {k \in KlinesByTimeframe : Len(k) <= 1}
          /\ risk_reward \in RiskRewards
          /\ mtf_pc = "timeframes"
          /\ klines_data = << >>
          /\ strategy = "none"
          /\ risk_reward_ratio = DefaultRiskReward
          /\ entry_method = "edge"
          /\ target_levels = NoLevels
          /\ pc = "idle"
    /\ SetInitialRun
    /\ tf_index = 1
    /\ strategy_index = 1
    /\ indicator_rankings = << >>
    /\ timeframe_analyses = << >>
    /\ all_indicators = << >>
    /\ report = None
    /\ mtf_error = "none"
    /\ ExtrasIdle

\* the same strategy method is called again with the same arguments
CallAgain ==
    /\ mtf_pc = "none" /\ strategy # "none"
    /\ pc \in {"returned", "raised"}
    /\ previous = None
    /\ previous' = Some(Outcome(Run))
    /\ SetRun(StartAgain(strategy, klines_data, target_levels, Run))
    /\ UNCHANGED << inputs, mtf_vars, peer, detected, exchanges, available, answer >>

\* what analyze_all_timeframes hands to its caller
ScanOutcome ==
    [mtf_pc |-> mtf_pc, report |-> report, mtf_error |-> mtf_error]

\* analyze_all_timeframes is called again with the same arguments
\* (lines 322-324: timeframe_analyses and all_indicators start empty)
ScanAgain ==
    /\ mtf_pc \in {"returned", "raised"}
    /\ previous = None
    /\ previous' = Some(ScanOutcome)
    /\ mtf_pc' = "timeframes"
    /\ tf_index' = 1
    /\ strategy_index' = 1
    /\ indicator_rankings' = << >>
    /\ timeframe_analyses' = << >>
    /\ all_indicators' = << >>
    /\ report' = None
    /\ mtf_error' = "none"
    /\ UNCHANGED << klines_by_timeframe, risk_reward >>
    /\ UNCHANGED << inputs, pc, i, order_blocks, fvgs, cisd_zones, fibo,
                    target_fibo_levels, trades, current_trade, result, error >>
    /\ UNCHANGED << peer, detected, exchanges, available, answer >>

NextRerun ==
    \/ Next
    \/ CallAgain
    \/ ScanAgain

RerunSpec == InitRerun /\ [][NextRerun]_vars

\* ------------------------------------------------------------------------
\* Two invocations of one strategy method running in two threads on one
\* shared engine (market_scanner.py hands analyze_timeframe of its one
\* analyzer to asyncio.to_thread).  The first thread is the run the
\* variables hold, the second is peer; the threads take turns bar by bar.
\* Neither writes an attribute of the engine or of its analyzers, and the
\* lists a run changes are locals of its own call.
\* ------------------------------------------------------------------------
\* one iteration of the loop of a strategy method
Bar(c, klines, r) ==
    CASE c.strategy = "orderblock"
            -> OrderBlockBar(klines, c.risk_reward_ratio, c.entry_method, r)
      [] c.strategy = "fvg" -> FVGBar(klines, c.risk_reward_ratio, r)
      [] c.strategy = "fibonacci" -> FibonacciBar(klines, c.risk_reward_ratio, r)
      [] c.strategy = "cisd" -> CISDBar(klines, c.risk_reward_ratio, r)

\* the next step of the call c that is in state r
Step(c, klines, r) ==
    IF r.pc = "call" THEN Start(c.strategy, klines, c.target_levels)
    ELSE IF r.pc = "loop" /\ r.i < Len(klines) THEN Bar(c, klines, r)
    ELSE IF r.pc = "loop" THEN FinishRun(klines, c.strategy, r)
    ELSE r

\* the call c run from state r to its end with no other thread about
RECURSIVE RunAlone(_, _, _)
RunAlone(c, klines, r) ==
    IF r.pc \in {"returned", "raised"} THEN r
    ELSE RunAlone(c, klines, Step(c, klines, r))

PeerStepSharingGaps(c, klines, r, mine) ==
    Step(c, klines,
         [r EXCEPT !.fvgs = IF r.pc = "loop" /\ mine.pc = "loop"
                            THEN mine.fvgs ELSE @])

\* a step of the second thread: mine, the locals of the invocation in the
\* first thread, cannot be reached from it
PeerStep(c, klines, r, mine) == Step(c, klines, r)

ThisCall == Call(strategy, risk_reward_ratio, entry_method, target_levels)

\* series whose windows open bearish gaps and stop trades out
ConcurrentLayout == [ReentryLayout EXCEPT !.shapes = {GapDown, Wide}]

\* both threads are about to call the same strategy method with the same
\* arguments: each strategy on the series with gaps, Fibonacci also on the
\* flat series long enough for a retracement
InitConcurrent ==
    /\ \E c \in {d \in Calls \cup InvalidCalls : d.risk_reward_ratio = DefaultRiskReward
                                 /\ d.entry_method = "edge"} :
          /\ \/ klines_data \in SeriesOf({ConcurrentLayout})
             \/ c.strategy = "fibonacci" /\ klines_data \in SeriesOf({FlatLayout})
          /\ strategy = c.strategy
          /\ risk_reward_ratio = c.risk_reward_ratio
          /\ entry_method = c.entry_method
          /\ target_levels = c.target_levels
    /\ pc = "call"
    /\ klines_by_timeframe = << >>
    /\ risk_reward = DefaultRiskReward
    /\ mtf_pc = "none"
    /\ SetInitialRun
    /\ tf_index = 1
    /\ strategy_index = 1
    /\ indicator_rankings = << >>
    /\ timeframe_analyses = << >>
    /\ all_indicators = << >>
    /\ report = None
    /\ mtf_error = "none"
    /\ previous = None
    /\ peer = Some([NewRun EXCEPT !.pc = "call"])
    /\ detected = None
    /\ exchanges = << >>
    /\ available = << >>
    /\ answer = None

\* the second thread runs one step
StepPeer ==
    /\ peer # None
    /\ Val(peer).pc \notin {"returned", "raised"}
    /\ peer' = Some(PeerStep(ThisCall, klines_data, Val(peer), Run))
    /\ UNCHANGED << inputs, mtf_vars, previous, detected, exchanges, available,
                    answer >>
    /\ UNCHANGED << pc, i, order_blocks, fvgs, cisd_zones, fibo,
                    target_fibo_levels, trades, current_trade, result, error >>

NextConcurrent ==
    \/ CallOrderBlock
    \/ CallFVG
    \/ CallFibonacci
    \/ CallCISD
    \/ BarOrderBlock
    \/ BarFVG
    \/ BarFibonacci
    \/ BarCISD
    \/ Finish
    \/ StepPeer

ConcurrentSpec == InitConcurrent /\ [][NextConcurrent]_vars

\* ------------------------------------------------------------------------
\* The detectors on their own: find_swing_highs_lows, find_structure_breaks,
\* find_cisd and calculate_auto_retracements applied to a candle series
\* ------------------------------------------------------------------------
MaxSwingLength == 3

SwingLengths == 0..MaxSwingLength

DetectorWindowLen == 5

\* 12 candles, the window at indices 1..5: index 1 is the candle 11 before
\* the end and index 2 the first of the last ten
DetectorLayout ==
    [pre |-> 1, w |-> DetectorWindowLen, post |-> TrendWindow - DetectorWindowLen + 1,
     spikes |-> FALSE, shapes |-> {Flat, GapUp, Wide, SpikeUp, Drop}]

\* a swing low at index 1 and a candle g places later that goes under it and
\* closes back above it, flat candles elsewhere
SweepSeries(g) ==
    [k \in 1..(CISDScan + 5) |->
        LET sh == IF k - 1 = 1 THEN SpikeDown
                  ELSE IF k - 1 = 1 + g THEN Wide
                  ELSE Flat
        IN  [time |-> TimeBase + k - 1, open |-> sh.open, high |-> sh.high,
             low |-> sh.low, close |-> sh.close]]

DetectorSeries ==
    SeriesOf({DetectorLayout}) \cup {SweepSeries(g) : g \in 1..(CISDScan + 1)}

Lookbacks == {TrendWindow \div 2, TrendWindow + 1, TrendWindow + 2}

Detection(fn, arg, highs, lows, out) ==
    [fn |-> fn, arg |-> arg, highs |-> highs, lows |-> lows, out |-> out]

InitDetector ==
    /\ klines_data \in DetectorSeries
    /\ pc = "detect"
    /\ strategy = "none"
    /\ risk_reward_ratio = DefaultRiskReward
    /\ entry_method = "edge"
    /\ target_levels = NoLevels
    /\ SetInitialRun
    /\ klines_by_timeframe = << >>
    /\ risk_reward = DefaultRiskReward
    /\ mtf_pc = "none"
    /\ tf_index = 1
    /\ strategy_index = 1
    /\ indicator_rankings = << >>
    /\ timeframe_analyses = << >>
    /\ all_indicators = << >>
    /\ report = None
    /\ mtf_error = "none"
    /\ ExtrasIdle

DetectorIdle ==
    /\ UNCHANGED << inputs, mtf_vars, previous, peer, exchanges, available, answer >>
    /\ UNCHANGED << i, order_blocks, fvgs, cisd_zones, fibo, target_fibo_levels,
                    trades, current_trade, result, error >>

\* SMCAnalyzer(swing_length=n).find_swing_highs_lows(candles)
FindSwings ==
    /\ pc = "detect"
    /\ \E n \in SwingLengths :
          LET candles == parse_candles(klines_data)
          IN  detected' = Some(Detection("find_swing_highs_lows", n,
                                         find_swing_highs(candles, n),
                                         find_swing_lows(candles, n), << >>))
    /\ pc' = "detected"
    /\ DetectorIdle

\* find_structure_breaks on the swings of find_swing_highs_lows
FindStructureBreaks ==
    /\ pc = "detect"
    /\ \E n \in SwingLengths :
          LET candles == parse_candles(klines_data)
              highs == find_swing_highs(candles, n)
              lows == find_swing_lows(candles, n)
          IN  detected' = Some(Detection("find_structure_breaks", n, highs, lows,
                                   find_structure_breaks(candles, highs, lows)))
    /\ pc' = "detected"
    /\ DetectorIdle

\* find_cisd on the swings of find_swing_highs_lows
FindCISD ==
    /\ pc = "detect"
    /\ \E n \in SwingLengths :
          LET candles == parse_candles(klines_data)
              highs == find_swing_highs(candles, n)
              lows == find_swing_lows(candles, n)
          IN  detected' = Some(Detection("find_cisd", n, highs, lows,
                                         find_cisd(candles, highs, lows)))
    /\ pc' = "detected"
    /\ DetectorIdle

\* FibonacciAnalyzer.calculate_auto_retracements(klines, lookback)
AutoRetracement ==
    /\ pc = "detect"
    /\ \E lookback \in Lookbacks :
          detected' = Some(Detection("calculate_auto_retracements", lookback,
                               << >>, << >>,
                               calculate_auto_retracements(klines_data, lookback)))
    /\ pc' = "detected"
    /\ DetectorIdle

NextDetector ==
    \/ FindSwings
    \/ FindStructureBreaks
    \/ FindCISD
    \/ AutoRetracement

DetectorSpec == InitDetector /\ [][NextDetector]_vars

\* ------------------------------------------------------------------------
\* DataAggregator over the exchanges (data_aggregator.py, exchanges/)
\* ------------------------------------------------------------------------
\* BingXExchange() and BinanceExchange(): name, priority and the mock data
BingX ==
    [name |-> "BingX", priority |-> 100, price |-> "50000.00", volume |-> "1000.5",
     bids |-> << << "49990.00", "0.5" >>, << "49980.00", "1.0" >> >>,
     asks |-> << << "50010.00", "0.5" >>, << "50020.00", "1.0" >> >>]

Binance ==
    [name |-> "Binance", priority |-> 50, price |-> "49995.00", volume |-> "2000.3",
     bids |-> << << "49985.00", "0.6" >>, << "49975.00", "1.2" >> >>,
     asks |-> << << "50005.00", "0.6" >>, << "50015.00", "1.2" >> >>]

ExchangeNames == {"BingX", "Binance"}

\* the lists the constructor is given: none, one or both exchanges, in
\* either order
ExchangeLists ==
    {<< >>, << BingX >>, << Binance >>, << BingX, Binance >>, << Binance, BingX >>}

Symbols == {"BTC-USDT", "ETH-USDT"}

InGivenOrder(given) == given

\* sorted(exchanges, key=lambda x: x.priority, reverse=True): stable
SortedByPriority(given) ==
    LET pos(k) == 1 + Cardinality({j \in DOMAIN given :
                                      given[j].priority > given[k].priority})
                    + Cardinality({j \in DOMAIN given :
                                      j < k /\ given[j].priority = given[k].priority})
    IN  [p \in 1..Len(given) |-> given[CHOOSE k \in DOMAIN given : pos(k) = p]]

\* exchange.get_ticker(symbol)
ExchangeTicker(exchange, is_available, symbol) ==
    IF ~is_available THEN None
    ELSE Some([symbol |-> symbol, price |-> exchange.price,
               volume |-> exchange.volume, timestamp |-> 1234567890,
               source |-> exchange.name, priority |-> exchange.priority])

\* exchange.get_order_book(symbol)
ExchangeOrderBook(exchange, is_available, symbol) ==
    IF ~is_available THEN None
    ELSE Some([symbol |-> symbol, bids |-> exchange.bids, asks |-> exchange.asks,
               timestamp |-> 1234567890,
               source |-> exchange.name, priority |-> exchange.priority])

\* the loop of get_ticker and get_order_book: the data of the first exchange
\* of self.exchanges that is available and answers
RECURSIVE FirstData(_, _, _, _)
FirstData(list, is_available, symbol, method) ==
    IF list = << >> THEN None
    ELSE LET exchange == Head(list)
             data == IF method = "get_ticker"
                     THEN ExchangeTicker(exchange, is_available[exchange.name], symbol)
                     ELSE ExchangeOrderBook(exchange, is_available[exchange.name],
                                            symbol)
         IN  IF ~is_available[exchange.name] \/ data = None
             THEN FirstData(Tail(list), is_available, symbol, method)
             ELSE data

\* DataAggregator(given): exchanges holds the list given and self.exchanges
InitAggregator ==
    /\ \E given \in ExchangeLists :
          exchanges = [given |-> given, sorted |-> SortedByPriority(given)]
    /\ available = [name \in ExchangeNames |-> TRUE]
    /\ answer = None
    /\ previous = None
    /\ peer = None
    /\ detected = None
    /\ pc = "aggregator"
    /\ klines_data = << >>
    /\ strategy = "none"
    /\ risk_reward_ratio = DefaultRiskReward
    /\ entry_method = "edge"
    /\ target_levels = NoLevels
    /\ SetInitialRun
    /\ klines_by_timeframe = << >>
    /\ risk_reward = DefaultRiskReward
    /\ mtf_pc = "none"
    /\ tf_index = 1
    /\ strategy_index = 1
    /\ indicator_rankings = << >>
    /\ timeframe_analyses = << >>
    /\ all_indicators = << >>
    /\ report = None
    /\ mtf_error = "none"

AggregatorIdle ==
    /\ UNCHANGED << inputs, mtf_vars, previous, peer, detected, exchanges >>
    /\ UNCHANGED << pc, i, order_blocks, fvgs, cisd_zones, fibo, target_fibo_levels,
                    trades, current_trade, result, error >>

\* exchange.set_available(value)
set_available ==
    /\ pc = "aggregator"
    /\ \E name \in ExchangeNames, value \in BOOLEAN :
          available' = [available EXCEPT ![name] = value]
    /\ UNCHANGED answer
    /\ AggregatorIdle

\* aggregator.get_ticker(symbol), called when the last answer has been taken
get_ticker ==
    /\ pc = "aggregator"
    /\ answer = None
    /\ \E symbol \in Symbols :
          answer' = Some([method |-> "get_ticker", symbol |-> symbol,
                          data |-> FirstData(exchanges.sorted, available, symbol,
                                             "get_ticker")])
    /\ UNCHANGED available
    /\ AggregatorIdle

\* aggregator.get_order_book(symbol)
get_order_book ==
    /\ pc = "aggregator"
    /\ answer = None
    /\ \E symbol \in Symbols :
          answer' = Some([method |-> "get_order_book", symbol |-> symbol,
                          data |-> FirstData(exchanges.sorted, available, symbol,
                                             "get_order_book")])
    /\ UNCHANGED available
    /\ AggregatorIdle

\* the caller takes the answer
TakeAnswer ==
    /\ pc = "aggregator"
    /\ answer # None
    /\ answer' = None
    /\ UNCHANGED available
    /\ AggregatorIdle

NextAggregator ==
    \/ set_available
    \/ get_ticker
    \/ get_order_book
    \/ TakeAnswer

AggregatorSpec == InitAggregator /\ [][NextAggregator]_vars

\* ------------------------------------------------------------------------
\* _calculate_metrics and calculate_indicator_score on their own: a list of
\* closed trades is turned into a BacktestResult, and the result is scored
\* ------------------------------------------------------------------------
MaxTrades == 3

\* the profit or loss of a closed trade, in price units
PnLValues == {-2, -1, 0, 1, 2, 3}

\* a closed BUY trade that made the given profit or loss
ClosedTrade(k, pnl) ==
    close_trade(Trade(TimeBase + k, BasePrice * Scale, k, "buy",
                      BasePrice * StopBelow, BasePrice * StopAbove, "Entry"),
                TimeBase + k, (BasePrice + pnl) * Scale, k,
                IF pnl > 0 THEN "Take Profit" ELSE "Stop Loss")

TradeLists ==
    UNION {{[k \in 1..n |-> ClosedTrade(k, p[k])] : p \in [1..n -> PnLValues]} :
              n \in 0..MaxTrades}

InitMetrics ==
    /\ trades \in TradeLists
    /\ pc = "metrics"
    /\ klines_data = << >>
    /\ strategy = "none"
    /\ risk_reward_ratio = DefaultRiskReward
    /\ entry_method = "edge"
    /\ target_levels = NoLevels
    /\ i = 0
    /\ order_blocks = << >>
    /\ fvgs = << >>
    /\ cisd_zones = << >>
    /\ fibo = None
    /\ target_fibo_levels = << >>
    /\ current_trade = None
    /\ result = None
    /\ error = "none"
    /\ klines_by_timeframe = << >>
    /\ risk_reward = DefaultRiskReward
    /\ mtf_pc = "none"
    /\ tf_index = 1
    /\ strategy_index = 1
    /\ indicator_rankings = << >>
    /\ timeframe_analyses = << >>
    /\ all_indicators = << >>
    /\ report = None
    /\ mtf_error = "none"
    /\ ExtrasIdle

\* _calculate_metrics(trades, ...)
CalculateMetrics ==
    /\ pc = "metrics"
    /\ result' = Some(calculate_metrics(trades, "Metrics"))
    /\ pc' = "returned"
    /\ UNCHANGED << inputs, mtf_vars, i, order_blocks, fvgs, cisd_zones, fibo,
                    target_fibo_levels, trades, current_trade, error >>
    /\ UNCHANGED extra_vars

\* lines 259-273: the result is scored and wrapped in an IndicatorRanking
ScoreResult ==
    /\ pc = "returned" /\ strategy = "none" /\ mtf_pc = "none"
    /\ indicator_rankings' = << IndicatorRanking("Metrics", "1m", Val(result)) >>
    /\ pc' = "scored"
    /\ UNCHANGED << inputs, klines_by_timeframe, risk_reward, mtf_pc, tf_index,
                    strategy_index, timeframe_analyses, all_indicators, report,
                    mtf_error >>
    /\ UNCHANGED << i, order_blocks, fvgs, cisd_zones, fibo, target_fibo_levels,
                    trades, current_trade, result, error >>
    /\ UNCHANGED extra_vars

NextMetrics ==
    \/ CalculateMetrics
    \/ ScoreResult

MetricsSpec == InitMetrics /\ [][NextMetrics]_vars

\* ------------------------------------------------------------------------
\* Properties of a strategy backtest
\* ------------------------------------------------------------------------
\* the trade the run holds open, when there is one
OpenNow == current_trade # None /\ ~is_closed(trades[Val(current_trade)])

\* C1: stop precedence.  A bar on which the open trade's stop condition and
\* its target condition both hold closes the trade on that bar at exactly
\* its stop_loss price with reason "Stop Loss".
C1_StopPrecedence ==
    [][(pc = "loop" /\ i < Len(klines_data) /\ OpenNow
          /\ StopHit(trades[Val(current_trade)], At(klines_data, i))
          /\ TargetHit(trades[Val(current_trade)], At(klines_data, i)))
       => LET before == trades[Val(current_trade)]
              after == trades'[Val(current_trade)]
          IN  /\ Len(trades') = Len(trades)
              /\ after.exit_index = Some(i)
              /\ after.exit_time = Some(At(klines_data, i).time)
              /\ after.exit_price = Some(before.stop_loss)
              /\ after.reason = "Stop Loss"
              /\ after.reason # "Take Profit"]_vars

\* a trade closed on a bar that touched both its stop and its target
C1_Witness ==
    \E k \in DOMAIN trades :
        /\ is_closed(trades[k])
        /\ trades[k].reason = "Stop Loss"
        /\ StopHit(trades[k], At(klines_data, Val(trades[k].exit_index)))
        /\ TargetHit(trades[k], At(klines_data, Val(trades[k].exit_index)))

\* C2: single position.  Of any two trades of a run the earlier one is
\* closed, and closed on a bar strictly before the bar the later one was
\* opened on: the index ranges never overlap, at most one trade is open, and
\* no bar both closes a trade and opens one.
C2_SinglePosition ==
    \A a, b \in DOMAIN trades :
        a < b => /\ is_closed(trades[a])
                 /\ trades[a].entry_index <= Val(trades[a].exit_index)
                 /\ Val(trades[a].exit_index) < trades[b].entry_index

\* a run that opened a second trade after closing the first
C2_Witness ==
    /\ pc = "returned"
    /\ Len(trades) >= 2
    /\ trades[1].reason \in {"Stop Loss", "Take Profit"}

\* C3: closure totality.  The step that returns the result leaves every
\* trade of the result closed, force-closes a trade still open at the last
\* candle's close with exit_index = len-1 and reason "End of backtest", and
\* reports total_trades equal to the length of the trade list.
C3_ClosureTotality ==
    [][(pc = "loop" /\ pc' = "returned")
       => LET res == Val(result')
              last_candle == klines_data[Len(klines_data)]
          IN  /\ res.trades = trades'
              /\ \A k \in DOMAIN res.trades :
                    /\ res.trades[k].exit_time # None
                    /\ res.trades[k].exit_price # None
                    /\ res.trades[k].exit_index # None
              /\ res.total_trades = Len(res.trades)
              /\ OpenNow =>
                    LET forced == res.trades[Val(current_trade)]
                    IN  /\ forced.exit_price = Some(last_candle.close * Scale)
                        /\ forced.exit_time = Some(last_candle.time)
                        /\ forced.exit_index = Some(Len(klines_data) - 1)
                        /\ forced.reason = "End of backtest"]_vars

\* a returned result holding a trade that was still open after the last bar
C3_Witness ==
    /\ pc = "returned"
    /\ \E k \in DOMAIN Val(result).trades :
          Val(result).trades[k].reason = "End of backtest"

\* a step of the bar loop that appends a trade
Opens == pc = "loop" /\ Len(trades') = Len(trades) + 1

\* C4: no look-ahead on entries.  A trade opened on bar i comes from a
\* pattern formed strictly before bar i: an order block with
\* candle_index < i, a gap with index_end < i, a CISD zone with
\* candle_index < i, and Fibonacci levels that are the retracement of the
\* candles before bar i.
C4_NoLookAhead ==
    [][Opens =>
         /\ strategy = "orderblock" =>
               \E k \in DOMAIN order_blocks :
                   /\ order_blocks[k].candle_index < i
                   /\ OrderBlockEntry(order_blocks[k], klines_data, i,
                                      risk_reward_ratio, entry_method) # None
         /\ strategy = "fvg" =>
               \E k \in DOMAIN fvgs :
                   /\ ~fvgs[k].filled /\ fvgs'[k].filled
                   /\ fvgs[k].index_end < i
         /\ strategy = "cisd" =>
               \E k \in DOMAIN cisd_zones : cisd_zones[k].candle_index < i
         /\ strategy = "fibonacci" =>
               calculate_auto_retracements(SubSeq(klines_data, 1, i), FiboLookback)
                   = << Val(fibo) >>]_vars

\* C5: entry between stop and target.  A BUY trade has
\* stop_loss < entry_price < take_profit, a SELL trade
\* take_profit < entry_price < stop_loss, and take_profit lies
\* |entry_price - stop_loss| * risk_reward_ratio beyond the entry.
C5_EntryInsideStopAndTarget ==
    \A k \in DOMAIN trades :
        LET t == trades[k]
            risk == Abs(t.entry_price - t.stop_loss)
        IN  /\ t.signal_type = "buy" =>
                  /\ t.stop_loss < t.entry_price
                  /\ t.entry_price < t.take_profit
                  /\ t.take_profit = t.entry_price + risk * risk_reward_ratio
            /\ t.signal_type = "sell" =>
                  /\ t.take_profit < t.entry_price
                  /\ t.entry_price < t.stop_loss
                  /\ t.take_profit = t.entry_price - risk * risk_reward_ratio

\* the gaps of the run that have been used
FilledGaps == {k \in DOMAIN fvgs : fvgs[k].filled}

\* C6: one-shot consumption of fair value gaps.  In a run of
\* test_fvg_strategy a used gap stays used, every new trade uses up exactly
\* one gap that was unused until then, and the trades never outnumber the
\* detected gaps.
C6_OneShotGaps ==
    [][(strategy = "fvg" /\ pc = "loop")
       => /\ \A k \in DOMAIN fvgs : fvgs[k].filled => fvgs'[k].filled
          /\ Len(trades') > Len(trades) =>
                \E k \in DOMAIN fvgs :
                    /\ ~fvgs[k].filled /\ fvgs'[k].filled
                    /\ \A j \in DOMAIN fvgs : j # k => fvgs'[j] = fvgs[j]
          /\ Len(trades') = Cardinality({k \in DOMAIN fvgs' : fvgs'[k].filled})
          /\ Len(trades') <= Len(fvgs')]_vars

\* a bar with no open trade on which a used gap meets the entry conditions
\* again
C6_Witness ==
    /\ strategy = "fvg" /\ pc = "loop" /\ i < Len(klines_data)
    /\ ~OpenNow
    /\ \E k \in FilledGaps :
          FVGEntry([fvgs[k] EXCEPT !.filled = FALSE], At(klines_data, i), i,
                   risk_reward_ratio) # None

\* a detected order block reached by bar i under the "edge" method, with the
\* entry price on the right side of the stop
BullishBlockReached(ob, candle, bar) ==
    /\ ob.type.value = "bullish"
    /\ ob.candle_index < bar
    /\ candle.low <= ob.top
    /\ Min2(candle.open, ob.top) * Scale > ob.bottom * StopBelow

BearishBlockReached(ob, candle, bar) ==
    /\ ob.type.value = "bearish"
    /\ ob.candle_index < bar
    /\ candle.high >= ob.bottom
    /\ Max2(candle.open, ob.bottom) * Scale < ob.top * StopAbove

\* C7: order block entry.  On a bar with no open trade, a bullish block
\* formed before the bar whose top the bar's low reaches opens a BUY on that
\* bar with stop_loss = bottom * 0.995; a bearish block whose bottom the
\* bar's high reaches opens a SELL with stop_loss = top * 1.005.
C7_OrderBlockEntry ==
    [][(strategy = "orderblock" /\ entry_method = "edge" /\ pc = "loop"
          /\ i < Len(klines_data) /\ ~OpenNow
          /\ \E k \in DOMAIN order_blocks :
                \/ BullishBlockReached(order_blocks[k], At(klines_data, i), i)
                \/ BearishBlockReached(order_blocks[k], At(klines_data, i), i))
       => /\ Len(trades') = Len(trades) + 1
          /\ LET t == trades'[Len(trades')]
             IN  /\ t.entry_index = i
                 /\ \E k \in DOMAIN order_blocks :
                       \/ /\ BullishBlockReached(order_blocks[k], At(klines_data, i), i)
                          /\ t.signal_type = "buy"
                          /\ t.stop_loss = order_blocks[k].bottom * StopBelow
                       \/ /\ BearishBlockReached(order_blocks[k], At(klines_data, i), i)
                          /\ t.signal_type = "sell"
                          /\ t.stop_loss = order_blocks[k].top * StopAbove]_vars

\* a CISD zone formed at most RetestWindow bars before bar i whose range
\* the bar overlaps
ZoneRetested(zone, candle, bar) ==
    /\ zone.candle_index < bar
    /\ bar <= zone.candle_index + RetestWindow
    /\ candle.low <= zone.top
    /\ candle.high >= zone.bottom

\* C8: CISD retest strategy.  A run on a series with at least one detected
\* zone never ends in an exception, and on a bar with no open trade a
\* retested zone opens a trade on that bar with stop at
\* liquidity_swept_level * 0.999 (bullish) or * 1.001 (bearish).
C8_CISDStrategy ==
    [][(strategy = "cisd" /\ pc = "loop" /\ cisd_zones # << >>)
       => /\ pc' # "raised"
          /\ (/\ i < Len(klines_data) /\ ~OpenNow
              /\ \E k \in DOMAIN cisd_zones :
                    ZoneRetested(cisd_zones[k], At(klines_data, i), i))
             => /\ Len(trades') = Len(trades) + 1
                /\ LET t == trades'[Len(trades')]
                   IN  /\ t.entry_index = i
                       /\ \E k \in DOMAIN cisd_zones :
                             LET zone == cisd_zones[k]
                             IN  /\ ZoneRetested(zone, At(klines_data, i), i)
                                 /\ \/ /\ zone.type.value = "bullish"
                                       /\ t.signal_type = "buy"
                                       /\ t.stop_loss =
                                              zone.liquidity_swept_level * SweepBelow
                                    \/ /\ zone.type.value = "bearish"
                                       /\ t.signal_type = "sell"
                                       /\ t.stop_loss =
                                              zone.liquidity_swept_level * SweepAbove]_vars

\* ------------------------------------------------------------------------
\* Properties of the multi-timeframe scan
\* ------------------------------------------------------------------------
\* a list of rankings with exactly one entry for each of the strategies
OnePerStrategy(rankings) ==
    /\ Len(rankings) = Len(STRATEGIES)
    /\ \A s \in DOMAIN STRATEGIES :
          Cardinality({k \in DOMAIN rankings :
                          rankings[k].indicator_name = STRATEGIES[s].indicator_name}) = 1

\* C9: for every timeframe analysed, each of the four strategies is
\* backtested with the risk/reward ratio the scan was given and contributes
\* exactly one ranking to the timeframe's indicators.
C9_EveryStrategyRanked ==
    /\ mtf_pc = "backtest" => risk_reward_ratio = risk_reward
    /\ (mtf_pc = "strategies" /\ strategy_index > Len(STRATEGIES))
          => OnePerStrategy(indicator_rankings)
    /\ \A k \in DOMAIN timeframe_analyses :
          OnePerStrategy(timeframe_analyses[k].indicators)

\* the timeframes of the argument that have enough candles, in order
Analysable ==
    SelectSeq(klines_by_timeframe,
              LAMBDA entry : Len(entry.klines) >= MinTimeframeCandles)

\* C10: failure isolation.  A strategy that raises is left out of its
\* timeframe's rankings and the loop goes on; a strategy that returns is
\* ranked; the scan itself never raises, and the report it returns holds an
\* analysis of every timeframe that has enough candles.
C10_FailureIsolation ==
    [][(mtf_pc # "none")
       => /\ mtf_pc' # "raised"
          /\ (mtf_pc = "backtest" /\ pc = "raised")
                => /\ indicator_rankings' = indicator_rankings
                   /\ strategy_index' = strategy_index + 1
                   /\ mtf_pc' = "strategies"
          /\ (mtf_pc = "backtest" /\ pc = "returned")
                => /\ Len(indicator_rankings') = Len(indicator_rankings) + 1
                   /\ indicator_rankings'[Len(indicator_rankings')].indicator_name
                          = STRATEGIES[strategy_index].indicator_name
                   /\ strategy_index' = strategy_index + 1
          /\ (mtf_pc' = "returned")
                => {Val(report').timeframes_analyzed[k].timeframe :
                        k \in DOMAIN Val(report').timeframes_analyzed}
                     = {Analysable[k].timeframe : k \in DOMAIN Analysable}]_vars

\* the strategy loop of analyze_timeframe is over and no strategy that
\* returned made a trade
ZeroTradeTimeframe ==
    /\ mtf_pc = "strategies" /\ strategy_index > Len(STRATEGIES)
    /\ \A k \in DOMAIN indicator_rankings : indicator_rankings[k].total_trades = 0

\* C11: a timeframe on which every strategy made zero trades is a valid
\* result.  analyze_timeframe returns an analysis of that timeframe with
\* total_score = 0 and respect_rate = 0 without raising, and
\* analyze_all_timeframes moves on to the next timeframe.
C11_ZeroTradeTimeframe ==
    [][ZeroTradeTimeframe
       => /\ mtf_pc' = "timeframes"
          /\ tf_index' = tf_index + 1
          /\ Len(timeframe_analyses') = Len(timeframe_analyses) + 1
          /\ LET analysis == timeframe_analyses'[Len(timeframe_analyses')]
             IN  /\ analysis.timeframe = klines_by_timeframe[tf_index].timeframe
                 /\ analysis.total_score = Frac(0, 1)
                 /\ analysis.respect_rate = Frac(0, 1)]_vars

\* ------------------------------------------------------------------------
\* Properties of the metrics and of the score
\* ------------------------------------------------------------------------
FracEq(a, b) == a.num * b.den = b.num * a.den

FracLE(a, b) == ~FracLT(b, a)

\* the score as the documentation gives it: 0 without trades, else
\* min(100, 40*(win_rate/100) + 30*min(profit_factor/2, 1)
\*            + 15*min(total_trades/10, 1) + 15*max(0, 1 - max_drawdown/50))
ClaimedScore(res) ==
    IF res.total_trades = 0 THEN Frac(0, 1)
    ELSE LET win_part == FracMul(Frac(40, 1), FracMul(res.win_rate, Frac(1, 100)))
             half_pf == IF res.profit_factor = Infinity THEN Infinity
                        ELSE FracMul(res.profit_factor, Frac(1, 2))
             pf_part == FracMul(Frac(30, 1),
                                IF FracLT(half_pf, Frac(1, 1)) THEN half_pf
                                ELSE Frac(1, 1))
             trades_part == FracMul(Frac(15, 1),
                                    FracMin(Frac(res.total_trades, 10), Frac(1, 1)))
             dd_left == FracAdd(Frac(1, 1),
                                FracMul(Frac(-1, 1),
                                        FracMul(res.max_drawdown, Frac(1, 50))))
             dd_part == FracMul(Frac(15, 1), FracMax(Frac(0, 1), dd_left))
         IN  FracMin(Frac(100, 1),
                     FracAdd(win_part, FracAdd(pf_part, FracAdd(trades_part, dd_part))))

C13_ReportOrder ==
    mtf_pc = "returned"
       => LET analysed == Val(report).timeframes_analyzed
          IN  /\ \A k \in 1..(Len(analysed) - 1) :
                    FracLE(analysed[k + 1].total_score, analysed[k].total_score)
              /\ analysed # << >> => Val(report).best_timeframe = Some(analysed[1])
              /\ \A k \in DOMAIN analysed :
                    \A j \in DOMAIN analysed[k].indicators :
                        /\ Val(report).best_overall_indicator # None
                        /\ FracLE(analysed[k].indicators[j].score,
                                  Val(Val(report).best_overall_indicator).score)

\* a report of two timeframes that were analysed in the opposite order, the
\* best indicator coming from the timeframe analysed last
C13_Witness ==
    /\ mtf_pc = "returned"
    /\ Len(timeframe_analyses) = 2
    /\ FracLT(timeframe_analyses[1].total_score, timeframe_analyses[2].total_score)
    /\ Val(report).timeframes_analyzed[1].timeframe = timeframe_analyses[2].timeframe
    /\ Val(Val(report).best_overall_indicator).timeframe
           = timeframe_analyses[2].timeframe

\* one step of the timeframe loop under a minimum of n candles: a series
\* shorter than n is passed over without raising and without an analysis,
\* any other series is handed to analyze_timeframe
MinimumCandlesStep(n) ==
    (mtf_pc = "timeframes" /\ tf_index <= Len(klines_by_timeframe))
       => IF Len(klines_by_timeframe[tf_index].klines) < n
          THEN /\ mtf_pc' = "timeframes"
               /\ tf_index' = tf_index + 1
               /\ timeframe_analyses' = timeframe_analyses
               /\ all_indicators' = all_indicators
          ELSE /\ mtf_pc' = "strategies"
               /\ tf_index' = tf_index

\* the report holds no timeframe whose series is shorter than n
ReportOmitsShorter(n) ==
    mtf_pc' = "returned"
       => \A k \in DOMAIN Val(report').timeframes_analyzed :
             \A e \in DOMAIN klines_by_timeframe :
                 klines_by_timeframe[e].timeframe
                     = Val(report').timeframes_analyzed[k].timeframe
                    => Len(klines_by_timeframe[e].klines) >= n

\* C14 as documented: a multi-timeframe scan requires 500 candles; every
\* timeframe with fewer than 500 is left out of the report without raising
\* and only timeframes with at least 500 are analysed.
C14_Minimum500 ==
    [][MinimumCandlesStep(500) /\ ReportOmitsShorter(500)]_vars

\* C14, amended: the minimum is 100 candles.  Every timeframe with fewer
\* than 100 candles is left out of the report without raising and only
\* timeframes with at least 100 candles are analysed.
C14_Minimum100 ==
    [][MinimumCandlesStep(100) /\ ReportOmitsShorter(100)]_vars

\* a report that left out a timeframe of 99 candles and holds one of fewer
\* than 500
C14_Witness ==
    /\ mtf_pc = "returned"
    /\ \E e \in DOMAIN klines_by_timeframe : Len(klines_by_timeframe[e].klines) = 99
    /\ \E k \in DOMAIN Val(report).timeframes_analyzed :
          \E e \in DOMAIN klines_by_timeframe :
              /\ klines_by_timeframe[e].timeframe
                     = Val(report).timeframes_analyzed[k].timeframe
              /\ Len(klines_by_timeframe[e].klines) \in 100..499

\* ------------------------------------------------------------------------
\* Properties of the error handling
\* ------------------------------------------------------------------------
\* fewer candles than the strategy's detector needs: 100 for the automatic
\* Fibonacci retracement, 20 for the SMC analysis of the other three
InsufficientData ==
    /\ strategy # "none"
    /\ Len(klines_data) < (IF strategy = "fibonacci" THEN 100 ELSE 20)

\* each detector, given fewer candles than its minimum, returns its empty
\* or insufficient-data value
DetectorsReportInsufficientData(klines) ==
    LET candles == parse_candles(klines)
    IN  /\ Len(klines) < 20 => "error" \in DOMAIN analyze(klines)
        /\ Len(klines) < 10 => find_order_blocks(candles) = << >>
        /\ Len(klines) < 15 => find_fair_value_gaps(candles) = << >>
        /\ Len(klines) < 20 =>
              find_cisd(candles, find_swing_highs(candles, swing_length),
                        find_swing_lows(candles, swing_length)) = << >>
        /\ Len(klines) < 100 => calculate_auto_retracements(klines, 100) = << >>

\* C15: insufficient data never raises.  Every detector and every strategy
\* backtest, given fewer candles than its minimum, the empty series
\* included, gives back an empty or insufficient-data result.
C15_InsufficientDataNeverRaises ==
    [][InsufficientData
       => /\ DetectorsReportInsufficientData(klines_data)
          /\ pc' # "raised"
          /\ pc' = "returned"
                => /\ Val(result').total_trades = 0
                   /\ Val(result').trades = << >>]_vars

\* the running call was given a risk/reward ratio of 0 or below, an entry
\* method other than "edge", "open" and "50%", or an empty target_levels
InvalidParameters ==
    /\ strategy # "none"
    /\ \/ risk_reward_ratio <= 0
       \/ strategy = "orderblock" /\ entry_method \notin {"edge", "open", "50%"}
       \/ strategy = "fibonacci" /\ target_levels = LevelList({})

\* C16: invalid parameters fail fast.  A backtest called with an invalid
\* parameter ends in an error before any candle is processed: it never
\* enters the loop, opens no trade and returns no result.
C16_InvalidParametersFailFast ==
    InvalidParameters
       => /\ pc \in {"call", "raised"}
          /\ i = 0
          /\ trades = << >>
          /\ result = None

\* ------------------------------------------------------------------------
\* Properties of the detectors
\* ------------------------------------------------------------------------
\* the largest true range of the series: no average of true ranges exceeds it
LargestTrueRange(klines) ==
    MaxSeq([k \in 1..Len(klines) |-> TrueRangeOB(klines, k - 1)])

\* 20 candles, the only bearish one at index 5, followed by 3 bullish
\* candles whose highs exceed its close by at least 0.3 * ATR
OrderBlockScenario(klines) ==
    /\ Len(klines) = 20
    /\ \A j \in 0..19 : is_bearish(At(klines, j)) <=> j = 5
    /\ \A k \in 1..3 :
          /\ is_bullish(At(klines, 5 + k))
          /\ MinStrengthDen * (At(klines, 5 + k).high - At(klines, 5).close)
                >= MinStrengthNum * LargestTrueRange(klines)

\* C17: order block detection scenario.  On a 20-candle series whose candle
\* at index 5 is bearish and is followed by 3 bullish candles whose highs
\* exceed its close by at least 0.3 * ATR, find_order_blocks returns exactly
\* one order block, bullish, with candle_index = 5, and the order block
\* strategy starts its loop with that one block.
C17_OrderBlockScenario ==
    (strategy = "orderblock" /\ pc = "loop" /\ OrderBlockScenario(klines_data))
       => LET found == find_order_blocks(klines_data)
          IN  /\ Len(found) = 1
              /\ found[1].type = BULLISH
              /\ found[1].candle_index = 5
              /\ Len(order_blocks) = 1

\* ------------------------------------------------------------------------
\* Properties of the metrics
\* ------------------------------------------------------------------------
\* cumulative PnL after the first k closed trades
CumulativeAt(pnls, k) == SumSeq(SubSeq(pnls, 1, k))

\* running peak of the cumulative PnL after the first k closed trades
PeakAt(pnls, k) == Max2(0, MaxSeq([j \in 1..k |-> CumulativeAt(pnls, j)]))

DrawdownAt(pnls, k) == PeakAt(pnls, k) - CumulativeAt(pnls, k)

\* the first trade at which the absolute drawdown is largest
WorstTrade(pnls) ==
    CHOOSE k \in 1..Len(pnls) :
        /\ \A j \in 1..Len(pnls) : DrawdownAt(pnls, j) <= DrawdownAt(pnls, k)
        /\ \A j \in 1..(k - 1) : DrawdownAt(pnls, j) < DrawdownAt(pnls, k)

\* C18: max_drawdown of a result equals (peak - cumulative) / peak * 100
\* evaluated at the trade where the absolute drawdown is largest, peak being
\* the running peak of the cumulative PnL at that trade.
C18_MaxDrawdown ==
    (pc \in {"returned", "scored"} /\ result # None /\ trades # << >>)
       => LET pnls == PnlOf(trades)
              k == WorstTrade(pnls)
          IN  PeakAt(pnls, k) > 0
                 => FracEq(Val(result).max_drawdown,
                           Frac(100 * DrawdownAt(pnls, k), PeakAt(pnls, k)))

\* sum of the PnL of the winning trades (PnL above 0) of a list
WinSum(pnls) == SumSeq(SelectSeq(pnls, LAMBDA p : p > 0))

\* sum of the PnL of the losing trades (PnL of 0 or below) of a list
LossSum(pnls) == SumSeq(SelectSeq(pnls, LAMBDA p : p <= 0))

WinCount(pnls) == Len(SelectSeq(pnls, LAMBDA p : p > 0))

\* other differs from pnls in nothing but the size of its winning trades:
\* the same length, winners at the same places, the same losing trades
SameButWins(pnls, other) ==
    /\ Len(other) = Len(pnls)
    /\ \A k \in 1..Len(pnls) :
          IF pnls[k] > 0 THEN other[k] > 0 ELSE other[k] = pnls[k]

\* the average win of other is strictly larger than that of pnls
LargerAverageWin(pnls, other) ==
    /\ WinCount(pnls) > 0 /\ WinCount(other) > 0
    /\ WinSum(other) * WinCount(pnls) > WinSum(pnls) * WinCount(other)

\* C19: profit_factor is the sum of the winning PnL over the absolute value
\* of the sum of the losing PnL, infinite when the losing sum is zero; and of
\* two non-empty trade lists identical except that one has a strictly larger
\* average win, _calculate_metrics gives that one a profit_factor that is
\* not smaller.
C19_ProfitFactor ==
    (pc \in {"returned", "scored"} /\ strategy = "none" /\ trades # << >>)
       => LET pnls == PnlOf(trades)
              pf == Val(result).profit_factor
          IN  /\ IF LossSum(pnls) = 0 THEN pf = Infinity
                 ELSE FracEq(pf, Frac(WinSum(pnls), Abs(LossSum(pnls))))
              /\ \A other \in TradeLists :
                    (SameButWins(pnls, PnlOf(other))
                        /\ LargerAverageWin(pnls, PnlOf(other)))
                       => FracLE(pf, calculate_metrics(other, "Metrics").profit_factor)

\* metrics of a list with a winner and a loser, for which a list with a
\* larger average win and a strictly larger profit factor exists
C19_Witness ==
    /\ pc = "returned" /\ strategy = "none"
    /\ WinCount(PnlOf(trades)) > 0
    /\ LossSum(PnlOf(trades)) < 0
    /\ \E other \in TradeLists :
          /\ SameButWins(PnlOf(trades), PnlOf(other))
          /\ LargerAverageWin(PnlOf(trades), PnlOf(other))
          /\ FracLT(Val(result).profit_factor,
                    calculate_metrics(other, "Metrics").profit_factor)

\* a run is about to end without having opened a trade: the loop is past
\* the last candle with no trade made, or the Fibonacci strategy is called
\* with fewer candles than the retracement needs
NoSignalRunEnds ==
    /\ strategy # "none"
    /\ \/ /\ pc = "loop" /\ i = Len(klines_data)
          /\ trades = << >> /\ current_trade = None
       \/ /\ pc = "call" /\ strategy = "fibonacci"
          /\ Len(klines_data) < FiboLookback

ZeroResult(r) ==
    /\ r # None
    /\ Val(r).total_trades = 0
    /\ Val(r).trades = << >>
    /\ Val(r).win_rate = Frac(0, 1)
    /\ Val(r).profit_factor = Frac(0, 1)
    /\ Val(r).max_drawdown = Frac(0, 1)

\* C20: empty case.  A candle series that produces no entry signal, fed to
\* any of the four strategies, yields a result with total_trades = 0,
\* win_rate = 0, profit_factor = 0, max_drawdown = 0 and an empty trade
\* list, not an error.
C20_EmptyCase ==
    [][NoSignalRunEnds => (pc' = "returned" /\ ZeroResult(result'))]_vars

Indices(swings) == {swings[k].index : k \in 1..Len(swings)}

\* C23: for swing lengths n' < n, every swing high index and every swing low
\* index found with swing_length n is also found with swing_length n':
\* shrinking the window never removes a swing point.
C23_SwingWindowMonotone ==
    (detected # None /\ Val(detected).fn = "find_swing_highs_lows")
       => LET d == Val(detected)
              candles == parse_candles(klines_data)
          IN  \A smaller \in 0..(d.arg - 1) :
                 /\ Indices(d.highs) \subseteq Indices(find_swing_highs(candles, smaller))
                 /\ Indices(d.lows) \subseteq Indices(find_swing_lows(candles, smaller))

\* swings were found with a window of 2 or more, a high and a low among
\* them, and the window one shorter finds a swing high more
C23_Witness ==
    /\ detected # None
    /\ Val(detected).fn = "find_swing_highs_lows"
    /\ Val(detected).arg >= 2
    /\ Val(detected).highs # << >>
    /\ Val(detected).lows # << >>
    /\ Indices(find_swing_highs(parse_candles(klines_data), Val(detected).arg - 1))
          # Indices(Val(detected).highs)

\* the candles strictly between two swings whose close is beyond the price
\* of the earlier one
BreakingCandles(candles, prev, curr) ==
    {j \in (prev.index + 1)..(curr.index - 1) :
        /\ j < Len(candles)
        /\ IF prev.is_high THEN candles[j + 1].close > prev.price
           ELSE candles[j + 1].close < prev.price}

Lowest(S) == CHOOSE j \in S : \A other \in S : j <= other

SweepingCandles(candles, swing) ==
    {j \in (swing.index + 1)..(swing.index + 20) :
        j < Len(candles) /\ SweepsAndReverses(candles, swing, j)}

\* C26: for each swing point find_cisd examines the 20 candles that follow
\* it, indices swing.index + 1 to swing.index + 20 as far as the series
\* goes, and records at most one zone per swing, the first of those candles
\* that sweeps the swing price and closes back across it (or whose next
\* candle does).
C26_CISDWindow ==
    (detected # None /\ Val(detected).fn = "find_cisd"
        /\ Len(klines_data) >= CISDMinCandles)
       => LET d == Val(detected)
              candles == parse_candles(klines_data)
              all_swings == MergeByIndex(d.highs, d.lows)
              swept == SelectSeq(Range(1, Len(all_swings) + 1),
                           LAMBDA k : SweepingCandles(candles, all_swings[k]) # {})
          IN  /\ Len(d.out) = Len(swept)
              /\ \A k \in 1..Len(d.out) :
                    d.out[k].candle_index =
                       Lowest(SweepingCandles(candles, all_swings[swept[k]]))

\* the close of the candle at an index
CloseAt(klines, index) == klines[index + 1].close

\* C27 as documented: the direction is "uptrend" exactly when the last close is
\* greater than the close of the candle 10 positions earlier, index len - 11.
C27_TenPositionsEarlier ==
    (detected # None /\ Val(detected).fn = "calculate_auto_retracements"
        /\ Val(detected).out # << >>)
       => LET len == Len(klines_data)
          IN  Val(detected).out[1].direction =
                 IF CloseAt(klines_data, len - 1) > CloseAt(klines_data, len - 11)
                 THEN "uptrend" ELSE "downtrend"

\* C27, amended: the direction is "uptrend" exactly when the last close is
\* greater than the close of the first of the last 10 candles of the
\* lookback window, index len - 10 (len - lookback_period for a lookback of
\* fewer than 10 candles), and "downtrend" otherwise.
C27_FirstOfLastTen ==
    (detected # None /\ Val(detected).fn = "calculate_auto_retracements"
        /\ Val(detected).out # << >>)
       => LET len == Len(klines_data)
              back == IF Val(detected).arg < 10 THEN Val(detected).arg ELSE 10
          IN  Val(detected).out[1].direction =
                 IF CloseAt(klines_data, len - 1) > CloseAt(klines_data, len - back)
                 THEN "uptrend" ELSE "downtrend"

\* an uptrend was reported over the last ten candles although the candle 10
\* positions before the last did not close under the last close
C27_Witness ==
    /\ detected # None
    /\ Val(detected).fn = "calculate_auto_retracements"
    /\ Val(detected).arg > 10
    /\ Val(detected).out # << >>
    /\ Val(detected).out[1].direction = "uptrend"
    /\ CloseAt(klines_data, Len(klines_data) - 11)
          >= CloseAt(klines_data, Len(klines_data) - 1)

\* ------------------------------------------------------------------------
\* Properties of the data aggregator
\* ------------------------------------------------------------------------
\* the exchanges given to the constructor that are available
AvailableGiven ==
    {exchanges.given[k] : k \in {j \in DOMAIN exchanges.given :
                                    available[exchanges.given[j].name]}}

HighestPriority(S) == CHOOSE e \in S : \A other \in S : e.priority >= other.priority

\* C24: whatever the order of the constructor's list and whatever
\* set_available calls came before, get_ticker and get_order_book return
\* the data of the highest-priority exchange that is available at the call
\* (BingX whenever it is available), and None exactly when no exchange is
\* available.
C24_PriorityFallback ==
    [][(answer = None /\ answer' # None)
          => LET a == Val(answer')
             IN  IF AvailableGiven = {} THEN a.data = None
                 ELSE LET best == HighestPriority(AvailableGiven)
                      IN  /\ a.data # None
                          /\ a.data = IF a.method = "get_ticker"
                                      THEN ExchangeTicker(best, TRUE, a.symbol)
                                      ELSE ExchangeOrderBook(best, TRUE, a.symbol)
                          /\ Val(a.data).source = best.name
                          /\ (BingX \in AvailableGiven
                                 => Val(a.data).source = "BingX")]_vars

\* the aggregator was given Binance before BingX, BingX has been made
\* unavailable, and the answer is Binance's data
C24_Witness ==
    /\ pc = "aggregator"
    /\ exchanges.given = << Binance, BingX >>
    /\ ~available["BingX"]
    /\ available["Binance"]
    /\ answer # None
    /\ Val(answer).data # None
    /\ Val(Val(answer).data).source = "Binance"

\* ------------------------------------------------------------------------
\* Properties of the trades of a run
\* ------------------------------------------------------------------------
\* C28: a trade opened on bar i is not evaluated against its stop or target
\* on bar i, even if that bar already breaches them: every trade closed with
\* reason "Stop Loss" or "Take Profit" has exit_index > entry_index, and only
\* an "End of backtest" close can have exit_index = entry_index.
C28_EntryBarNotEvaluated ==
    \A k \in 1..Len(trades) :
       is_closed(trades[k])
          => /\ trades[k].reason \in {"Stop Loss", "Take Profit"}
                   => Val(trades[k].exit_index) > trades[k].entry_index
             /\ Val(trades[k].exit_index) = trades[k].entry_index
                   => trades[k].reason = "End of backtest"
             /\ Val(trades[k].exit_index) >= trades[k].entry_index

\* a trade whose entry bar already reached its stop or its target was closed
\* on a later bar by the stop or the target
C28_Witness ==
    /\ mtf_pc = "none"
    /\ pc = "returned"
    /\ \E k \in 1..Len(trades) :
          /\ is_closed(trades[k])
          /\ trades[k].reason \in {"Stop Loss", "Take Profit"}
          /\ LET bar == At(klines_data, trades[k].entry_index)
             IN  StopHit(trades[k], bar) \/ TargetHit(trades[k], bar)

\* a trade opened on the last bar was closed on it by the end of the backtest
C28_LastBarEntry ==
    /\ mtf_pc = "none"
    /\ pc = "returned"
    /\ \E k \in 1..Len(trades) :
          /\ is_closed(trades[k])
          /\ Val(trades[k].exit_index) = trades[k].entry_index

\* the risk/reward ratio of the run the variables hold
RatioOfRun == IF mtf_pc = "none" THEN risk_reward_ratio ELSE risk_reward

\* C29: with a risk/reward ratio above 0 and positive prices, a trade closed
\* with reason "Take Profit" has profit_loss > 0 and counts as a winner, a
\* trade closed with reason "Stop Loss" has profit_loss < 0 and counts as a
\* loser, and winning_trades + losing_trades = total_trades.
C29_ReasonAgreesWithOutcome ==
    RatioOfRun > 0
       => /\ \A k \in 1..Len(trades) :
                is_closed(trades[k])
                   => /\ trades[k].reason = "Take Profit"
                            => Val(trades[k].profit_loss) > 0 /\ is_winner(trades[k])
                      /\ trades[k].reason = "Stop Loss"
                            => Val(trades[k].profit_loss) < 0 /\ ~is_winner(trades[k])
          /\ (pc = "returned" /\ result # None)
                => Val(result).winning_trades + Val(result).losing_trades
                      = Val(result).total_trades

\* the cumulative PnL after some trade is under its value after an earlier one
CurveFalls(pnls) ==
    \E j \in 1..Len(pnls) : \E k \in (j + 1)..Len(pnls) :
       CumulativeAt(pnls, k) < CumulativeAt(pnls, j)

\* C30: for every list of closed trades the max_drawdown of _calculate_metrics
\* is a percentage between 0 and 100, and it is above 0 whenever the
\* cumulative PnL curve falls below an earlier value of itself.
C30_MaxDrawdownRange ==
    (pc \in {"returned", "scored"} /\ result # None)
       => /\ FracLE(Frac(0, 1), Val(result).max_drawdown)
          /\ FracLE(Val(result).max_drawdown, Frac(100, 1))
          /\ CurveFalls(PnlOf(trades)) => FracLT(Frac(0, 1), Val(result).max_drawdown)

================================================================
